---- MODULE Spec2Model ----
(***************************************************************************)
(* Rule evaluation and action dispatch of the mail rule processor          *)
(* (src/CLI/rule_processor.py) with the record store (src/CLI/pg_handler.py)*)
(* and the mail service (src/mail_service.py) it drives.                   *)
(*                                                                         *)
(* Python strings are sequences of one-character strings, so that lower(), *)
(* upper(), substring membership and int() are computed, not assumed.      *)
(* Python values are tagged records [t, s, n]: t is the type, s the string *)
(* payload, n the integer payload (the instant, in ticks, of a datetime).  *)
(***************************************************************************)
EXTENDS Integers, Sequences, FiniteSets, TLC

VARIABLES
    op,          \* the function called last ("init" before any call)
    args,        \* the arguments of that call
    ret,         \* what the call returned, or the exception it raised
    calls,       \* the remote (Gmail API) calls the call issued, in order
    rules_file,  \* EMAIL_RULES_FILE on disk
    store,       \* the rows of the emails table, in SELECT order
    store_up,    \* whether the database accepts connections
    credentials  \* what authorize_email_service finds on disk

vars == <<op, args, ret, calls, rules_file, store, store_up, credentials>>

----------------------------------------------------------------------------
(* Bounds of the model                                                     *)

\* longest field value / condition value drawn for the text predicates
MaxLen == 2
\* clock ticks per day: a datetime is finer than a day
TicksPerDay == 2
\* longest list of conditions in a ruleset drawn for evaluate_email_rules
MaxRules == 2
\* longest action list drawn for execute_email_actions
MaxActions == 2
\* most rows the emails table holds
MaxStore == 2

\* threshold *= 30 for unit "months"
DaysPerMonth == 30

----------------------------------------------------------------------------
(* Python str                                                              *)

UpperLetters == <<"A","B","C","D","E","F","G","H","I","J","K","L","M",
                  "N","O","P","Q","R","S","T","U","V","W","X","Y","Z">>
LowerLetters == <<"a","b","c","d","e","f","g","h","i","j","k","l","m",
                  "n","o","p","q","r","s","t","u","v","w","x","y","z">>
Digits == <<"0","1","2","3","4","5","6","7","8","9">>

IndexIn(c, seq) == IF \E i \in 1..Len(seq) : seq[i] = c
                   THEN CHOOSE i \in 1..Len(seq) : seq[i] = c
                   ELSE 0

LowerChar(c) == IF IndexIn(c, UpperLetters) > 0
                THEN LowerLetters[IndexIn(c, UpperLetters)] ELSE c
UpperChar(c) == IF IndexIn(c, LowerLetters) > 0
                THEN UpperLetters[IndexIn(c, LowerLetters)] ELSE c

\* str.lower()
Lower(s) == [i \in 1..Len(s) |-> LowerChar(s[i])]
\* str.upper()
Upper(s) == [i \in 1..Len(s) |-> UpperChar(s[i])]

\* `a in b` on two str: a occurs in b as a contiguous run
StrIn(a, b) == \E k \in 0..(Len(b) - Len(a)) :
                   \A i \in 1..Len(a) : b[k + i] = a[i]

\* str.strip() restricted to the blank " "
RECURSIVE Strip(_)
Strip(s) == IF s = <<>> THEN s
            ELSE IF Head(s) = " " THEN Strip(Tail(s))
            ELSE IF s[Len(s)] = " " THEN Strip(SubSeq(s, 1, Len(s) - 1))
            ELSE s

IsDigits(s) == Len(s) > 0 /\ \A i \in 1..Len(s) : IndexIn(s[i], Digits) > 0

RECURSIVE DigitsValue(_)
DigitsValue(s) == IF s = <<>> THEN 0
                  ELSE 10 * DigitsValue(SubSeq(s, 1, Len(s) - 1))
                       + (IndexIn(s[Len(s)], Digits) - 1)

\* int(str): blanks stripped, an optional sign, then decimal digits;
\* anything else is a ValueError.  (Digit-group underscores are outside
\* the alphabet of the values drawn here.)
StrUnsigned(s) == IF Strip(s) # <<>> /\ Head(Strip(s)) \in {"+", "-"}
                  THEN Tail(Strip(s)) ELSE Strip(s)
IntParses(s) == IsDigits(StrUnsigned(s))
IntOfStr(s) == IF Strip(s) # <<>> /\ Head(Strip(s)) = "-"
               THEN 0 - DigitsValue(StrUnsigned(s))
               ELSE DigitsValue(StrUnsigned(s))

----------------------------------------------------------------------------
(* String literals of the source                                           *)

\* the empty string, the default of every dict.get of a string
s_empty == <<>>

\* the predicate names check_condition compares against
PredicateName ==
    [
     contains |-> <<"c", "o", "n", "t", "a", "i", "n", "s">>,
     does_not_contain |-> <<"d", "o", "e", "s", " ", "n", "o", "t", " ", "c", "o", "n", "t", "a", "i", "n">>,
     equals |-> <<"e", "q", "u", "a", "l", "s">>,
     does_not_equal |-> <<"d", "o", "e", "s", " ", "n", "o", "t", " ", "e", "q", "u", "a", "l">>,
     less_than |-> <<"l", "e", "s", "s", " ", "t", "h", "a", "n">>,
     greater_than |-> <<"g", "r", "e", "a", "t", "e", "r", " ", "t", "h", "a", "n">>
    ]

\* the unit names of a date condition
UnitName ==
    [
     days |-> <<"d", "a", "y", "s">>,
     months |-> <<"m", "o", "n", "t", "h", "s">>
    ]

\* the match policy that means all, and the default policy
PolicyName ==
    [
     all |-> <<"a", "l", "l">>,
     All |-> <<"A", "l", "l">>
    ]

\* the rule field names evaluate_email_rules tells apart
FieldName ==
    [
     from |-> <<"f", "r", "o", "m">>,
     to |-> <<"t", "o">>,
     subject |-> <<"s", "u", "b", "j", "e", "c", "t">>,
     received |-> <<"r", "e", "c", "e", "i", "v", "e", "d">>,
     message |-> <<"m", "e", "s", "s", "a", "g", "e">>
    ]

\* the keys of a stored record (subject and message are also field names)
AttributeName ==
    [
     email_id |-> <<"e", "m", "a", "i", "l", "_", "i", "d">>,
     sender |-> <<"s", "e", "n", "d", "e", "r">>,
     recipient |-> <<"r", "e", "c", "i", "p", "i", "e", "n", "t">>,
     received_date |-> <<"r", "e", "c", "e", "i", "v", "e", "d", "_", "d", "a", "t", "e">>
    ]

\* the action types execute_email_actions tells apart
ActionName ==
    [
     mark_as_read |-> <<"m", "a", "r", "k", " ", "a", "s", " ", "r", "e", "a", "d">>,
     mark_as_unread |-> <<"m", "a", "r", "k", " ", "a", "s", " ", "u", "n", "r", "e", "a", "d">>,
     move_message |-> <<"m", "o", "v", "e", " ", "m", "e", "s", "s", "a", "g", "e">>,
     star |-> <<"s", "t", "a", "r">>,
     unstar |-> <<"u", "n", "s", "t", "a", "r">>,
     archive |-> <<"a", "r", "c", "h", "i", "v", "e">>,
     trash |-> <<"t", "r", "a", "s", "h">>
    ]

\* the keys and tokens of LABELS_MAP and the two flag tokens
LabelName ==
    [
     inbox |-> <<"i", "n", "b", "o", "x">>,
     forum |-> <<"f", "o", "r", "u", "m">>,
     updates |-> <<"u", "p", "d", "a", "t", "e", "s">>,
     promotions |-> <<"p", "r", "o", "m", "o", "t", "i", "o", "n", "s">>,
     INBOX |-> <<"I", "N", "B", "O", "X">>,
     CATEGORY_FORUMS |-> <<"C", "A", "T", "E", "G", "O", "R", "Y", "_", "F", "O", "R", "U", "M", "S">>,
     CATEGORY_UPDATES |-> <<"C", "A", "T", "E", "G", "O", "R", "Y", "_", "U", "P", "D", "A", "T", "E", "S">>,
     CATEGORY_PROMOTIONS |-> <<"C", "A", "T", "E", "G", "O", "R", "Y", "_", "P", "R", "O", "M", "O", "T", "I", "O", "N", "S">>,
     UNREAD |-> <<"U", "N", "R", "E", "A", "D">>,
     STARRED |-> <<"S", "T", "A", "R", "R", "E", "D">>
    ]

\* spellings and values drawn as inputs
Sample ==
    [
     Contains_cap |-> <<"C", "o", "n", "t", "a", "i", "n", "s">>,
     EQUALS_up |-> <<"E", "Q", "U", "A", "L", "S">>,
     Less_Than_cap |-> <<"L", "e", "s", "s", " ", "T", "h", "a", "n">>,
     matches |-> <<"m", "a", "t", "c", "h", "e", "s">>,
     d7 |-> <<"7">>,
     sp7 |-> <<" ", "7">>,
     minus1 |-> <<"-", "1">>,
     d0 |-> <<"0">>,
     x |-> <<"x">>,
     Months_cap |-> <<"M", "o", "n", "t", "h", "s">>,
     weeks |-> <<"w", "e", "e", "k", "s">>,
     a |-> <<"a">>,
     m1 |-> <<"m", "1">>,
     m2 |-> <<"m", "2">>,
     m3 |-> <<"m", "3">>,
     m4 |-> <<"m", "4">>,
     ab |-> <<"a", "b">>,
     b |-> <<"b">>,
     A_up |-> <<"A">>,
     ba |-> <<"b", "a">>,
     B_up |-> <<"B">>,
     aB |-> <<"a", "B">>,
     Ab |-> <<"A", "b">>,
     From_cap |-> <<"F", "r", "o", "m">>,
     Subject_cap |-> <<"S", "u", "b", "j", "e", "c", "t">>,
     MESSAGE_up |-> <<"M", "E", "S", "S", "A", "G", "E">>,
     ReceivedAt |-> <<"R", "e", "c", "e", "i", "v", "e", "d", "A", "t">>,
     Received_Date_Time |-> <<"R", "e", "c", "e", "i", "v", "e", "d", " ", "D", "a", "t", "e", "/", "T", "i", "m", "e">>,
     Any_cap |-> <<"A", "n", "y">>,
     any |-> <<"a", "n", "y">>,
     Star_cap |-> <<"S", "t", "a", "r">>,
     TRASH_up |-> <<"T", "R", "A", "S", "H">>,
     delete |-> <<"d", "e", "l", "e", "t", "e">>,
     Forum_cap |-> <<"F", "o", "r", "u", "m">>,
     work |-> <<"w", "o", "r", "k">>,
     Work_cap |-> <<"W", "o", "r", "k">>,
     WORK_up |-> <<"W", "O", "R", "K">>,
     Move_Message_cap |-> <<"M", "o", "v", "e", " ", "M", "e", "s", "s", "a", "g", "e">>,
     Updates_cap |-> <<"U", "p", "d", "a", "t", "e", "s">>
    ]

\* spellings and values drawn as inputs

----------------------------------------------------------------------------
(* Python values and call outcomes                                         *)

PStr(s) == [t |-> "str", s |-> s, n |-> 0]
PInt(n) == [t |-> "int", s |-> <<>>, n |-> n]
PNone == [t |-> "null", s |-> <<>>, n |-> 0]
\* a datetime, as the instant it denotes, in ticks
PDatetime(ts) == [t |-> "datetime", s |-> <<>>, n |-> ts]

\* dict.get(key, default) and `key in dict`
Has(d, k) == k \in DOMAIN d
Get(d, k, default) == IF k \in DOMAIN d THEN d[k] ELSE default

\* a call returns a value ...
Return(v) == [exc |-> "none", val |-> v]
\* ... or raises; val is then unused
Raise(e) == [exc |-> e, val |-> FALSE]

----------------------------------------------------------------------------
(* check_condition, rule_processor.py:38-73                                *)

\* (datetime.now(tz) - email_value).days: timedelta.days is the floor
ElapsedDays(now, email_value) == (now - email_value.n) \div TicksPerDay

\* Mutant of DateCheck: the unit is ignored, months count as days.
DateCheck_NoMonths(email_value, condition, operator, now) ==
    LET cond_value == condition["value"]
        unit == Get(condition, "unit", PStr(UnitName.days))
    IN  IF cond_value.t = "null" THEN Raise("TypeError")
        ELSE IF cond_value.t = "str" /\ ~IntParses(cond_value.s)
        THEN Return(FALSE)
        ELSE IF unit.t # "str" THEN Raise("AttributeError")
        ELSE LET threshold == IF cond_value.t = "str"
                              THEN IntOfStr(cond_value.s) ELSE cond_value.n
                 elapsed_days == ElapsedDays(now, email_value)
             IN  IF operator = PredicateName.less_than
                 THEN Return(elapsed_days < threshold)
                 ELSE Return(elapsed_days > threshold)

\* lines 49-60, the date branch
DateCheck(email_value, condition, operator, now) ==
    LET cond_value == condition["value"]
        unit == Get(condition, "unit", PStr(UnitName.days))
    IN  IF cond_value.t = "null" THEN Raise("TypeError")
        ELSE IF cond_value.t = "str" /\ ~IntParses(cond_value.s)
        THEN Return(FALSE)
        ELSE IF unit.t # "str" THEN Raise("AttributeError")
        ELSE LET base == IF cond_value.t = "str" THEN IntOfStr(cond_value.s)
                         ELSE cond_value.n
                 threshold == IF Lower(unit.s) = UnitName.months
                              THEN base * DaysPerMonth ELSE base
                 elapsed_days == ElapsedDays(now, email_value)
             IN  IF operator = PredicateName.less_than
                 THEN Return(elapsed_days < threshold)
                 ELSE Return(elapsed_days > threshold)

\* Mutant of TextCheck: the field value is not lower-cased.
TextCheck_CaseSensitive(email_value, condition, operator) ==
    LET cond_value == condition["value"]
    IN  IF operator \notin {PredicateName.contains, PredicateName.does_not_contain,
                            PredicateName.equals, PredicateName.does_not_equal}
        THEN Return(FALSE)
        ELSE IF cond_value.t # "str" THEN Raise("AttributeError")
        ELSE IF operator = PredicateName.contains
        THEN Return(StrIn(Lower(cond_value.s), email_value.s))
        ELSE IF operator = PredicateName.does_not_contain
        THEN Return(~StrIn(Lower(cond_value.s), email_value.s))
        ELSE IF operator = PredicateName.equals
        THEN Return(email_value.s = Lower(cond_value.s))
        ELSE Return(email_value.s # Lower(cond_value.s))

\* Mutant of TextCheck: the two negated predicates compare the field value
\* as written, not lower-cased.
TextCheck_NegatedAsWritten(email_value, condition, operator) ==
    LET cond_value == condition["value"]
    IN  IF operator \notin {PredicateName.contains, PredicateName.does_not_contain,
                            PredicateName.equals, PredicateName.does_not_equal}
        THEN Return(FALSE)
        ELSE IF cond_value.t # "str" THEN Raise("AttributeError")
        ELSE IF operator = PredicateName.contains
        THEN Return(StrIn(Lower(cond_value.s), Lower(email_value.s)))
        ELSE IF operator = PredicateName.does_not_contain
        THEN Return(~StrIn(Lower(cond_value.s), email_value.s))
        ELSE IF operator = PredicateName.equals
        THEN Return(Lower(email_value.s) = Lower(cond_value.s))
        ELSE Return(email_value.s # Lower(cond_value.s))

\* lines 63-71, the text branch
TextCheck(email_value, condition, operator) ==
    LET cond_value == condition["value"]
    IN  IF operator \notin {PredicateName.contains, PredicateName.does_not_contain,
                            PredicateName.equals, PredicateName.does_not_equal}
        THEN Return(FALSE)
        ELSE IF cond_value.t # "str" THEN Raise("AttributeError")
        ELSE IF operator = PredicateName.contains
        THEN Return(StrIn(Lower(cond_value.s), Lower(email_value.s)))
        ELSE IF operator = PredicateName.does_not_contain
        THEN Return(~StrIn(Lower(cond_value.s), Lower(email_value.s)))
        ELSE IF operator = PredicateName.equals
        THEN Return(Lower(email_value.s) = Lower(cond_value.s))
        ELSE Return(Lower(email_value.s) # Lower(cond_value.s))

check_condition(email_value, condition, now) ==
    IF ~Has(condition, "predicate") THEN Raise("KeyError")
    ELSE IF condition["predicate"].t # "str" THEN Raise("AttributeError")
    ELSE IF ~Has(condition, "value") THEN Raise("KeyError")
    ELSE LET operator == Lower(condition["predicate"].s)
         IN  IF /\ email_value.t = "datetime"
                /\ operator \in {PredicateName.less_than, PredicateName.greater_than}
             THEN DateCheck(email_value, condition, operator, now)
             ELSE IF email_value.t = "str"
             THEN TextCheck(email_value, condition, operator)
             ELSE Return(FALSE)

----------------------------------------------------------------------------
(* evaluate_email_rules, rule_processor.py:75-97                           *)

\* Mutant of ResolveField: a closed mapping, the empty string for every
\* other field name.
ResolveField_Closed(email, field) ==
    IF field = FieldName.from THEN Get(email, AttributeName.sender, PStr(s_empty))
    ELSE IF field = FieldName.to THEN Get(email, AttributeName.recipient, PStr(s_empty))
    ELSE IF field = FieldName.subject THEN Get(email, FieldName.subject, PStr(s_empty))
    ELSE IF StrIn(FieldName.received, field) THEN Get(email, AttributeName.received_date, PNone)
    ELSE IF field = FieldName.message THEN Get(email, FieldName.message, PStr(s_empty))
    ELSE PStr(s_empty)

\* lines 82-93: the record attribute a (lower-cased) field name reads
ResolveField(email, field) ==
    IF field = FieldName.from THEN Get(email, AttributeName.sender, PStr(s_empty))
    ELSE IF field = FieldName.to THEN Get(email, AttributeName.recipient, PStr(s_empty))
    ELSE IF field = FieldName.subject THEN Get(email, FieldName.subject, PStr(s_empty))
    ELSE IF StrIn(FieldName.received, field) THEN Get(email, AttributeName.received_date, PNone)
    ELSE IF field = FieldName.message THEN Get(email, FieldName.message, PStr(s_empty))
    ELSE Get(email, field, PStr(s_empty))

\* lines 79-94: the loop over ruleset["rules"]; evals are the evaluations
\* appended so far, fields the values handed to check_condition
RECURSIVE EvalLoop(_, _, _, _, _)

\* line 94, once check_condition has returned or raised r
EvalAppend(email, rules, now, evals, fields, email_field_value, r) ==
    IF r.exc # "none"
    THEN [exc |-> r.exc, evals |-> evals,
          fields |-> Append(fields, email_field_value)]
    ELSE EvalLoop(email, Tail(rules), now, Append(evals, r.val),
                  Append(fields, email_field_value))

\* line 94, on the value the field resolved to
EvalRule(email, rules, now, evals, fields, email_field_value) ==
    EvalAppend(email, rules, now, evals, fields, email_field_value,
               check_condition(email_field_value, Head(rules), now))

EvalLoop(email, rules, now, evals, fields) ==
    IF rules = <<>> THEN [exc |-> "none", evals |-> evals, fields |-> fields]
    ELSE IF Has(Head(rules), "field") /\ Head(rules)["field"].t # "str"
    THEN [exc |-> "AttributeError", evals |-> evals, fields |-> fields]
    ELSE EvalRule(email, rules, now, evals, fields,
                  ResolveField(email,
                      Lower(Get(Head(rules), "field", PStr(s_empty)).s)))

\* all(evaluations), any(evaluations)
PyAll(evals) == \A i \in 1..Len(evals) : evals[i]
PyAny(evals) == \E i \in 1..Len(evals) : evals[i]

\* Mutant of Combine: the two policies are exchanged.
Combine_Swapped(ruleset, evals) ==
    LET match_policy == Get(ruleset, "match_policy", PStr(PolicyName.All))
    IN  IF match_policy.t # "str" THEN Raise("AttributeError")
        ELSE IF Lower(match_policy.s) = PolicyName.all THEN Return(PyAny(evals))
        ELSE Return(PyAll(evals))

\* lines 96-97
Combine(ruleset, evals) ==
    LET match_policy == Get(ruleset, "match_policy", PStr(PolicyName.All))
    IN  IF match_policy.t # "str" THEN Raise("AttributeError")
        ELSE IF Lower(match_policy.s) = PolicyName.all THEN Return(PyAll(evals))
        ELSE Return(PyAny(evals))

\* lines 96-97 after the loop, which an exception of the loop skips
Matched(ruleset, loop) ==
    IF loop.exc # "none"
    THEN [exc |-> loop.exc, val |-> FALSE,
          evals |-> loop.evals, fields |-> loop.fields]
    ELSE [exc |-> Combine(ruleset, loop.evals).exc,
          val |-> Combine(ruleset, loop.evals).val,
          evals |-> loop.evals, fields |-> loop.fields]

\* the whole function; evals and fields are kept beside the result
evaluate_email_rules(email, ruleset, now) ==
    Matched(ruleset, EvalLoop(email, Get(ruleset, "rules", <<>>), now,
                              <<>>, <<>>))

----------------------------------------------------------------------------
(* Report text.  A str is kept as the list of its lines, str.split("\n"):  *)
(* the empty str is one blank line.                                        *)

BlankLine == [kind |-> "blank", msg |-> "", id |-> <<>>, atype |-> <<>>,
              label |-> <<>>, err |-> ""]
\* f"Email {email_id} {msg}" of lines 112-151
OkLine(email_id, msg, label) ==
    [kind |-> "ok", msg |-> msg, id |-> email_id, atype |-> <<>>,
     label |-> label, err |-> ""]
\* f"Error processing action '{action_type}' on email {email_id}: {e}"
ErrLine(email_id, action_type, e) ==
    [kind |-> "error", msg |-> "Error processing action", id |-> email_id,
     atype |-> action_type, label |-> <<>>, err |-> e]
\* f"Email {email_id} matches rules. Executing actions..."
SummaryLine(email_id) ==
    [kind |-> "summary", msg |-> "matches rules. Executing actions...",
     id |-> email_id, atype |-> <<>>, label |-> <<>>, err |-> ""]
\* a fixed message such as "No emails to process."
MsgLine(msg) ==
    [kind |-> "message", msg |-> msg, id |-> <<>>, atype |-> <<>>,
     label |-> <<>>, err |-> ""]

RECURSIVE Concat(_)
Concat(texts) == IF texts = <<>> THEN <<>>
                 ELSE Head(texts) \o Concat(Tail(texts))

\* "\n".join(parts), each part a str
Join(parts) == IF parts = <<>> THEN <<BlankLine>> ELSE Concat(parts)

----------------------------------------------------------------------------
(* execute_email_actions, rule_processor.py:99-154                         *)

\* Mutant of LABELS_MAP_get: the fallback is the destination as written,
\* not upper-cased.
LABELS_MAP_get_NoUpper(destination) ==
    IF destination = LabelName.inbox THEN LabelName.INBOX
    ELSE IF destination = LabelName.forum THEN LabelName.CATEGORY_FORUMS
    ELSE IF destination = LabelName.updates THEN LabelName.CATEGORY_UPDATES
    ELSE IF destination = LabelName.promotions THEN LabelName.CATEGORY_PROMOTIONS
    ELSE destination

\* LABELS_MAP.get(destination, destination.upper()), lines 19-24 and 121
LABELS_MAP_get(destination) ==
    IF destination = LabelName.inbox THEN LabelName.INBOX
    ELSE IF destination = LabelName.forum THEN LabelName.CATEGORY_FORUMS
    ELSE IF destination = LabelName.updates THEN LabelName.CATEGORY_UPDATES
    ELSE IF destination = LabelName.promotions THEN LabelName.CATEGORY_PROMOTIONS
    ELSE Upper(destination)

\* service.users().messages().modify(userId="me", id=..., body=...)
Modify(email_id, remove, add, pos) ==
    [api |-> "modify", id |-> email_id, remove |-> remove, add |-> add,
     pos |-> pos]
\* service.users().messages().trash(userId="me", id=...)
Trash(email_id, pos) ==
    [api |-> "trash", id |-> email_id, remove |-> <<>>, add |-> <<>>,
     pos |-> pos]

ActionTypes == {ActionName.mark_as_read, ActionName.mark_as_unread, ActionName.move_message, ActionName.star,
                ActionName.unstar, ActionName.archive, ActionName.trash}

\* Mutant of RemoteCall: a move to the inbox does not remove the inbox
\* label it adds.
RemoteCall_MoveKeepsInbox(email_id, action_type, label, pos) ==
    IF action_type = ActionName.mark_as_read
    THEN Modify(email_id, <<LabelName.UNREAD>>, <<>>, pos)
    ELSE IF action_type = ActionName.mark_as_unread
    THEN Modify(email_id, <<>>, <<LabelName.UNREAD>>, pos)
    ELSE IF action_type = ActionName.move_message
    THEN Modify(email_id,
                IF label = LabelName.INBOX THEN <<>> ELSE <<LabelName.INBOX>>,
                <<label>>, pos)
    ELSE IF action_type = ActionName.star
    THEN Modify(email_id, <<>>, <<LabelName.STARRED>>, pos)
    ELSE IF action_type = ActionName.unstar
    THEN Modify(email_id, <<LabelName.STARRED>>, <<>>, pos)
    ELSE IF action_type = ActionName.archive
    THEN Modify(email_id, <<LabelName.INBOX>>, <<>>, pos)
    ELSE Trash(email_id, pos)

\* the remote call of one action of a recognised type (lines 107-151);
\* pos is the position of the action in actions_list
RemoteCall(email_id, action_type, label, pos) ==
    IF action_type = ActionName.mark_as_read
    THEN Modify(email_id, <<LabelName.UNREAD>>, <<>>, pos)
    ELSE IF action_type = ActionName.mark_as_unread
    THEN Modify(email_id, <<>>, <<LabelName.UNREAD>>, pos)
    ELSE IF action_type = ActionName.move_message
    THEN Modify(email_id, <<LabelName.INBOX>>, <<label>>, pos)
    ELSE IF action_type = ActionName.star
    THEN Modify(email_id, <<>>, <<LabelName.STARRED>>, pos)
    ELSE IF action_type = ActionName.unstar
    THEN Modify(email_id, <<LabelName.STARRED>>, <<>>, pos)
    ELSE IF action_type = ActionName.archive
    THEN Modify(email_id, <<LabelName.INBOX>>, <<>>, pos)
    ELSE Trash(email_id, pos)

\* the message appended on success
OkMessage(action_type) ==
    IF action_type = ActionName.mark_as_read THEN "marked as read."
    ELSE IF action_type = ActionName.mark_as_unread THEN "marked as unread."
    ELSE IF action_type = ActionName.move_message THEN "moved to"
    ELSE IF action_type = ActionName.star THEN "starred."
    ELSE IF action_type = ActionName.unstar THEN "unstarred."
    ELSE IF action_type = ActionName.archive THEN "archived."
    ELSE "trashed."

\* Mutant of ActionStep: no try/except around the remote call, so a failed
\* call leaves the function.
ActionStep_NoCatch(email_id, action, pos, fails) ==
    LET action_type == Lower(Get(action, "action", PStr(s_empty)).s)
        destination == Get(action, "destination", PStr(LabelName.inbox))
        label == IF action_type = ActionName.move_message /\ destination.t = "str"
                 THEN LABELS_MAP_get(Lower(destination.s)) ELSE <<>>
        call == RemoteCall(email_id, action_type, label, pos)
    IN  IF action_type \notin ActionTypes
        THEN [exc |-> "none", results |-> <<>>, calls |-> <<>>]
        ELSE IF action_type = ActionName.move_message /\ destination.t # "str"
        THEN [exc |-> "AttributeError", results |-> <<>>, calls |-> <<>>]
        ELSE IF pos \in fails
        THEN [exc |-> "HttpError", results |-> <<>>, calls |-> <<call>>]
        ELSE [exc |-> "none",
              results |-> <<OkLine(email_id, OkMessage(action_type), label)>>,
              calls |-> <<call>>]

\* Mutant of ActionStep: the except clause records nothing.
ActionStep_SilentFailure(email_id, action, pos, fails) ==
    LET action_type == Lower(Get(action, "action", PStr(s_empty)).s)
        destination == Get(action, "destination", PStr(LabelName.inbox))
        label == IF action_type = ActionName.move_message /\ destination.t = "str"
                 THEN LABELS_MAP_get(Lower(destination.s)) ELSE <<>>
        call == RemoteCall(email_id, action_type, label, pos)
    IN  IF action_type \notin ActionTypes
        THEN [exc |-> "none", results |-> <<>>, calls |-> <<>>]
        ELSE IF action_type = ActionName.move_message /\ destination.t # "str"
        THEN [exc |-> "none", results |-> <<>>, calls |-> <<>>]
        ELSE IF pos \in fails
        THEN [exc |-> "none", results |-> <<>>, calls |-> <<call>>]
        ELSE [exc |-> "none",
              results |-> <<OkLine(email_id, OkMessage(action_type), label)>>,
              calls |-> <<call>>]

\* One pass of the loop body, lines 105-153, for the action at position pos.
\* fails holds the positions whose remote call raises.  The outcome is what
\* the pass appends to results and to the calls issued, and the exception
\* that leaves the function, if any.
ActionStep(email_id, action, pos, fails) ==
    IF Has(action, "action") /\ action["action"].t # "str"
    THEN [exc |-> "AttributeError", results |-> <<>>, calls |-> <<>>]
    ELSE
    LET action_type == Lower(Get(action, "action", PStr(s_empty)).s)
        destination == Get(action, "destination", PStr(LabelName.inbox))
        label == IF action_type = ActionName.move_message /\ destination.t = "str"
                 THEN LABELS_MAP_get(Lower(destination.s)) ELSE <<>>
        call == RemoteCall(email_id, action_type, label, pos)
    IN  IF action_type \notin ActionTypes
        THEN [exc |-> "none", results |-> <<>>, calls |-> <<>>]
        ELSE IF action_type = ActionName.move_message /\ destination.t # "str"
        THEN [exc |-> "none",
              results |-> <<ErrLine(email_id, action_type, "AttributeError")>>,
              calls |-> <<>>]
        ELSE IF pos \in fails
        THEN [exc |-> "none",
              results |-> <<ErrLine(email_id, action_type, "HttpError")>>,
              calls |-> <<call>>]
        ELSE [exc |-> "none",
              results |-> <<OkLine(email_id, OkMessage(action_type), label)>>,
              calls |-> <<call>>]

\* the loop of lines 103-153 from position pos on
RECURSIVE ExecLoop(_, _, _, _, _, _)

\* Mutant of ExecAppend: the call of a pass is put before the calls already
\* issued, so the calls of one record come out in reverse declared order.
ExecAppend_Prepend(email_id, actions_list, fails, pos, results, issued, step) ==
    IF step.exc # "none"
    THEN [exc |-> step.exc, results |-> results, calls |-> issued]
    ELSE ExecLoop(email_id, actions_list, fails, pos + 1,
                  results \o step.results, step.calls \o issued)

\* the loop once the pass at pos has had the outcome step
ExecAppend(email_id, actions_list, fails, pos, results, issued, step) ==
    IF step.exc # "none"
    THEN [exc |-> step.exc, results |-> results, calls |-> issued]
    ELSE ExecLoop(email_id, actions_list, fails, pos + 1,
                  results \o step.results, issued \o step.calls)

ExecLoop(email_id, actions_list, fails, pos, results, issued) ==
    IF pos > Len(actions_list)
    THEN [exc |-> "none", results |-> results, calls |-> issued]
    ELSE ExecAppend(email_id, actions_list, fails, pos, results, issued,
                    ActionStep(email_id, actions_list[pos], pos, fails))

\* line 154: "\n".join(results), unless an exception left the loop
Joined(loop) ==
    [exc |-> loop.exc,
     val |-> IF loop.exc = "none"
             THEN Join([i \in 1..Len(loop.results) |-> <<loop.results[i]>>])
             ELSE <<>>,
     calls |-> loop.calls]

\* the whole function: the joined report, and the calls it issued
execute_email_actions(email_id, actions_list, fails) ==
    Joined(ExecLoop(email_id, actions_list, fails, 1, <<>>, <<>>))

----------------------------------------------------------------------------
(* apply_email_rules, rule_processor.py:156-176, and what it calls         *)

\* A JSON document: t is "dict" (d its members), "list" (n its length),
\* "null", or "undecodable" for a file json.load rejects.
DocDict(d) == [t |-> "dict", n |-> 0, d |-> d]
DocList(n) == [t |-> "list", n |-> n, d |-> <<>>]
DocNull == [t |-> "null", n |-> 0, d |-> <<>>]
DocUndecodable == [t |-> "undecodable", n |-> 0, d |-> <<>>]

\* load_email_rules, lines 26-36: None for a missing or undecodable file
load_email_rules(file) ==
    IF ~file.exists THEN DocNull
    ELSE IF file.doc.t = "undecodable" THEN DocNull
    ELSE file.doc

\* bool(ruleset) of line 162
Truthy(doc) == \/ doc.t = "dict" /\ DOMAIN doc.d # {}
               \/ doc.t = "list" /\ doc.n > 0

\* a row as get_emails_pg returns it (pg_handler.py:134-141)
Row(email_id, sender, recipient, subject, received_date, message) ==
    (AttributeName.email_id :> email_id) @@ (AttributeName.sender :> sender)
    @@ (AttributeName.recipient :> recipient) @@ (FieldName.subject :> subject)
    @@ (AttributeName.received_date :> received_date) @@ (FieldName.message :> message)

\* get_emails_pg, pg_handler.py:111-147: the rows, or an error string
get_emails_pg(rows, up) ==
    IF up THEN [is_list |-> TRUE, rows |-> rows]
    ELSE [is_list |-> FALSE, rows |-> <<>>]

\* insert_email_pg, pg_handler.py:76-109: the row is built from the six
\* keys of email_info (None for a key it lacks) and inserted unless a row
\* with that email_id is there (ON CONFLICT (email_id) DO NOTHING, on the
\* UNIQUE column of init_pg_table: a NULL email_id conflicts with none); any
\* failure is returned as a string.
RowOf(email_info) ==
    [k \in {AttributeName.email_id, AttributeName.sender, AttributeName.recipient, FieldName.subject, AttributeName.received_date,
            FieldName.message} |-> Get(email_info, k, PNone)]
\* Mutant of insert_email_pg: a row with the same email_id is replaced by the
\* new one (ON CONFLICT DO UPDATE).
insert_email_pg_Replace(rows, up, email_info) ==
    IF ~up
    THEN [rows |-> rows, val |-> <<MsgLine("Error inserting email")>>]
    ELSE IF \E i \in 1..Len(rows) :
                rows[i][AttributeName.email_id]
                    = RowOf(email_info)[AttributeName.email_id]
    THEN [rows |-> [i \in 1..Len(rows) |->
                       IF rows[i][AttributeName.email_id]
                              = RowOf(email_info)[AttributeName.email_id]
                       THEN RowOf(email_info) ELSE rows[i]],
          val |-> <<OkLine(RowOf(email_info)[AttributeName.email_id].s,
                           "inserted.", <<>>)>>]
    ELSE [rows |-> Append(rows, RowOf(email_info)),
          val |-> <<OkLine(RowOf(email_info)[AttributeName.email_id].s,
                           "inserted.", <<>>)>>]

insert_email_pg(rows, up, email_info) ==
    IF ~up
    THEN [rows |-> rows, val |-> <<MsgLine("Error inserting email")>>]
    ELSE IF /\ RowOf(email_info)[AttributeName.email_id] # PNone
            /\ \E i \in 1..Len(rows) :
                   rows[i][AttributeName.email_id]
                       = RowOf(email_info)[AttributeName.email_id]
    THEN [rows |-> rows,
          val |-> <<OkLine(RowOf(email_info)[AttributeName.email_id].s, "inserted.",
                           <<>>)>>]
    ELSE [rows |-> Append(rows, RowOf(email_info)),
          val |-> <<OkLine(RowOf(email_info)[AttributeName.email_id].s, "inserted.",
                           <<>>)>>]

\* authorize_email_service, mail_service.py:17-44.  credentials is "token"
\* (a valid pickled token), "oauth_file" (no token, the client secrets file
\* is there: the login flow runs and the token is saved) or "missing".
authorize_email_service(creds) ==
    IF creds = "token" THEN [exc |-> "none", credentials |-> "token"]
    ELSE IF creds = "oauth_file" THEN [exc |-> "none", credentials |-> "token"]
    ELSE [exc |-> "FileNotFoundError", credentials |-> creds]

\* what may be on disk
CredentialStates == {"token", "oauth_file", "missing"}

\* the log entry of a session obtained
Authorize == [api |-> "authorize", id |-> <<>>, remove |-> <<>>,
              add |-> <<>>, pos |-> 0]

\* lines 173-175 once execute_email_actions has returned or raised ex:
\* the strings appended to summary, the calls issued
Executed(email_id, ex) ==
    [exc |-> ex.exc, lines |-> << <<SummaryLine(email_id)>>, ex.val >>,
     calls |-> ex.calls, evaluated |-> TRUE]

\* Mutant of Decided: the result of evaluate_email_rules is not tested, every
\* record is treated as a match.
Decided_AlwaysMatch(email, ruleset, fails, ev) ==
    IF ev.exc # "none"
    THEN [exc |-> ev.exc, lines |-> <<>>, calls |-> <<>>, evaluated |-> TRUE]
    ELSE IF ~Has(email, AttributeName.email_id) \/ ~Has(ruleset.d, "actions")
    THEN [exc |-> "KeyError", lines |-> <<>>, calls |-> <<>>,
          evaluated |-> TRUE]
    ELSE Executed(email[AttributeName.email_id].s,
                  execute_email_actions(email[AttributeName.email_id].s,
                                        ruleset.d["actions"], fails))

\* lines 172-175 once evaluate_email_rules has returned or raised ev
Decided(email, ruleset, fails, ev) ==
    IF ev.exc # "none"
    THEN [exc |-> ev.exc, lines |-> <<>>, calls |-> <<>>, evaluated |-> TRUE]
    ELSE IF ~ev.val
    THEN [exc |-> "none", lines |-> <<>>, calls |-> <<>>, evaluated |-> TRUE]
    ELSE IF ~Has(email, AttributeName.email_id) \/ ~Has(ruleset.d, "actions")
    THEN [exc |-> "KeyError", lines |-> <<>>, calls |-> <<>>,
          evaluated |-> TRUE]
    ELSE Executed(email[AttributeName.email_id].s,
                  execute_email_actions(email[AttributeName.email_id].s,
                                        ruleset.d["actions"], fails))

\* One pass of the loop body, lines 172-175, for one stored record.
\* fails holds the positions of the actions whose remote call raises; lines
\* are the strings the pass appends to summary.
ApplyStep(email, ruleset, now, fails) ==
    IF ruleset.t # "dict"
    THEN [exc |-> "AttributeError", lines |-> <<>>, calls |-> <<>>,
          evaluated |-> FALSE]
    ELSE Decided(email, ruleset, fails,
                 evaluate_email_rules(email, ruleset.d, now))

\* the loop of lines 171-175 from record idx on; fails[idx] is the failure
\* pattern of the remote calls for record idx
RECURSIVE ApplyLoop(_, _, _, _, _, _, _, _)

\* the loop once the pass at idx has had the outcome step
ApplyAppend(emails, ruleset, now, fails, idx, summary, issued, evaluated, step) ==
    IF step.exc # "none"
    THEN [exc |-> step.exc, summary |-> summary,
          calls |-> issued \o step.calls,
          evaluated |-> IF step.evaluated THEN Append(evaluated, idx)
                        ELSE evaluated]
    ELSE ApplyLoop(emails, ruleset, now, fails, idx + 1,
                   summary \o step.lines, issued \o step.calls,
                   Append(evaluated, idx))

ApplyLoop(emails, ruleset, now, fails, idx, summary, issued, evaluated) ==
    IF idx > Len(emails)
    THEN [exc |-> "none", summary |-> summary, calls |-> issued,
          evaluated |-> evaluated]
    ELSE ApplyAppend(emails, ruleset, now, fails, idx, summary, issued,
                     evaluated,
                     ApplyStep(emails[idx], ruleset, now, fails[idx]))

\* line 176 once the loop has ended or an exception has left it
Reported(loop, creds) ==
    [exc |-> loop.exc,
     val |-> IF loop.exc # "none" THEN <<>> ELSE Join(loop.summary),
     calls |-> loop.calls, evaluated |-> loop.evaluated,
     credentials |-> creds]

\* lines 169-176, with the session obtained or the exception raised
Authorized(ruleset, emails, now, fails, auth) ==
    IF auth.exc # "none"
    THEN [exc |-> auth.exc, val |-> <<>>, calls |-> <<>>,
          evaluated |-> <<>>, credentials |-> auth.credentials]
    ELSE Reported(ApplyLoop(emails.rows, ruleset, now, fails, 1, <<>>,
                            <<Authorize>>, <<>>),
                  auth.credentials)

\* lines 162-176 on the ruleset loaded and the emails read
Applied(ruleset, emails, creds, now, fails) ==
    IF ~Truthy(ruleset)
    THEN [exc |-> "none",
          val |-> <<MsgLine("Missing or invalid rules file.")>>,
          calls |-> <<>>, evaluated |-> <<>>, credentials |-> creds]
    ELSE IF emails.rows = <<>> \/ ~emails.is_list
    THEN [exc |-> "none", val |-> <<MsgLine("No emails to process.")>>,
          calls |-> <<>>, evaluated |-> <<>>, credentials |-> creds]
    ELSE Authorized(ruleset, emails, now, fails,
                    authorize_email_service(creds))

\* The whole function.  val is the report, calls the session and remote
\* calls in order, evaluated the records handed to evaluate_email_rules,
\* credentials what authorize_email_service leaves on disk.
apply_email_rules(file, rows, up, creds, now, fails) ==
    Applied(load_email_rules(file), get_emails_pg(rows, up), creds, now,
            fails)

----------------------------------------------------------------------------
(* mail_service.py: fetch_emails, retrieve_email, convert_date_string      *)

\* the cap of maxResults, lines 56 and 59
PageMax == 100

\* str.isdigit(): a non-empty str of digits.  The superscript two, written
\* "^2" here, is a digit to isdigit() and not to int().
StrIsDigit(s) ==
    Len(s) > 0 /\ \A i \in 1..Len(s) : IndexIn(s[i], Digits) > 0 \/ s[i] = "^2"

\* service.users().messages().list(userId="me", maxResults=..., q=...,
\* pageToken=...); page_token 0 stands for no token
ListCall(max_results, q, page_token) ==
    [api |-> "list", maxResults |-> max_results, q |-> q,
     pageToken |-> page_token]
\* service.users().messages().get(userId="me", id=..., format="full")
GetCall(msg_id) == [api |-> "get", id |-> msg_id]

\* The requests of lines 61-72 from the one for page p on.  pages are the
\* responses of the remote in order: pages[p] is the "messages" of response
\* p (empty when it has none) and response p carries a nextPageToken, p
\* itself, iff p < Len(pages).  fail_at is the request that raises, 0 for
\* none.  last is the last request issued.
RECURSIVE FetchLoop(_, _, _, _, _, _)
FetchLoop(pages, digit, desired_count, fail_at, p, emails) ==
    IF fail_at = p
    THEN [exc |-> "HttpError", emails |-> emails, last |-> p]
    ELSE IF p < Len(pages)
            /\ (~digit \/ Len(emails \o pages[p]) < desired_count)
    THEN FetchLoop(pages, digit, desired_count, fail_at, p + 1,
                   emails \o pages[p])
    ELSE [exc |-> "none", emails |-> emails \o pages[p], last |-> p]

\* Mutant of Fetched: the list is not cut to desired_count (line 75).
Fetched_NoTruncate(loop, digit, desired_count, max_results, query_text) ==
    [exc |-> loop.exc,
     val |-> IF loop.exc # "none" THEN <<>> ELSE loop.emails,
     requests |-> [p \in 1..loop.last |->
                      ListCall(max_results, query_text, p - 1)]]

\* lines 74-77 once the loop has ended or a request has raised
Fetched(loop, digit, desired_count, max_results, query_text) ==
    [exc |-> loop.exc,
     val |-> IF loop.exc # "none" THEN <<>>
             ELSE IF digit /\ Len(loop.emails) > desired_count
             THEN SubSeq(loop.emails, 1, desired_count)
             ELSE loop.emails,
     requests |-> [p \in 1..loop.last |->
                      ListCall(max_results, query_text, p - 1)]]

\* fetch_emails, lines 46-77: the identifiers listed and the requests made
fetch_emails(pages, count_or_query, fail_at) ==
    IF StrIsDigit(count_or_query) /\ ~IntParses(count_or_query)
    THEN [exc |-> "ValueError", val |-> <<>>, requests |-> <<>>]
    ELSE IF StrIsDigit(count_or_query)
    THEN Fetched(FetchLoop(pages, TRUE, IntOfStr(count_or_query), fail_at, 1,
                           <<>>),
                 TRUE, IntOfStr(count_or_query),
                 IF IntOfStr(count_or_query) < PageMax
                 THEN IntOfStr(count_or_query) ELSE PageMax,
                 s_empty)
    ELSE Fetched(FetchLoop(pages, FALSE, 0, fail_at, 1, <<>>),
                 FALSE, 0, PageMax, count_or_query)

\* str.split(sep) for a one-character sep
RECURSIVE Split(_, _)
Split(s, sep) ==
    IF \A i \in 1..Len(s) : s[i] # sep THEN <<s>>
    ELSE <<SubSeq(s, 1, (CHOOSE i \in 1..Len(s) :
                            s[i] = sep /\ \A j \in 1..(i - 1) : s[j] # sep)
                        - 1)>>
         \o Split(SubSeq(s, (CHOOSE i \in 1..Len(s) :
                                s[i] = sep /\ \A j \in 1..(i - 1) : s[j] # sep)
                            + 1, Len(s)), sep)

\* the names %a and %b take, lower-cased
DayNames == { <<"m","o","n">>, <<"t","u","e">>, <<"w","e","d">>,
              <<"t","h","u">>, <<"f","r","i">>, <<"s","a","t">>,
              <<"s","u","n">> }
MonthNames == << <<"j","a","n">>, <<"f","e","b">>, <<"m","a","r">>,
                 <<"a","p","r">>, <<"m","a","y">>, <<"j","u","n">>,
                 <<"j","u","l">>, <<"a","u","g">>, <<"s","e","p">>,
                 <<"o","c","t">>, <<"n","o","v">>, <<"d","e","c">> >>

\* a field of one or two digits with a value in lo..hi (%d, %H, %M, %S)
TwoDigit(s, lo, hi) == /\ IsDigits(s) /\ Len(s) <= 2
                       /\ DigitsValue(s) >= lo /\ DigitsValue(s) <= hi

\* the days of month m of year y
DaysIn(y, m) ==
    IF m = 2
    THEN IF y % 4 = 0 /\ (y % 100 # 0 \/ y % 400 = 0) THEN 29 ELSE 28
    ELSE IF m \in {4, 6, 9, 11} THEN 30 ELSE 31

\* the proleptic Gregorian day number of a date (days since 1970-01-01)
DayNumber(y, m, d) ==
    ((IF m <= 2 THEN y - 1 ELSE y) \div 400) * 146097
    + ((IF m <= 2 THEN y - 1 ELSE y) % 400) * 365
    + ((IF m <= 2 THEN y - 1 ELSE y) % 400) \div 4
    - ((IF m <= 2 THEN y - 1 ELSE y) % 400) \div 100
    + ((153 * (IF m > 2 THEN m - 3 ELSE m + 9) + 2) \div 5) + d - 1 - 719468

\* datetime.strptime(..., '%a, %d %b %Y %H:%M:%S %z') on the blank-separated
\* tokens of a str with single blanks: whether it parses
DateParses(tok) ==
    /\ Len(tok) = 6
    /\ Len(tok[1]) = 4 /\ tok[1][4] = ","
    /\ Lower(SubSeq(tok[1], 1, 3)) \in DayNames
    /\ TwoDigit(tok[2], 1, 31)
    /\ \E m \in 1..12 : MonthNames[m] = Lower(tok[3])
    /\ IsDigits(tok[4]) /\ Len(tok[4]) = 4
    /\ DigitsValue(tok[2])
           <= DaysIn(DigitsValue(tok[4]),
                     CHOOSE m \in 1..12 : MonthNames[m] = Lower(tok[3]))
    /\ Len(Split(tok[5], ":")) = 3
    /\ TwoDigit(Split(tok[5], ":")[1], 0, 23)
    /\ TwoDigit(Split(tok[5], ":")[2], 0, 59)
    /\ TwoDigit(Split(tok[5], ":")[3], 0, 59)
    /\ Len(tok[6]) = 5 /\ tok[6][1] \in {"+", "-"}
    /\ IsDigits(Tail(tok[6]))
    /\ DigitsValue(SubSeq(tok[6], 4, 5)) <= 59

\* the instant it parses to, in minutes since 1970-01-01T00:00Z
DateMinutes(tok) ==
    DayNumber(DigitsValue(tok[4]),
              CHOOSE m \in 1..12 : MonthNames[m] = Lower(tok[3]),
              DigitsValue(tok[2])) * 1440
    + DigitsValue(Split(tok[5], ":")[1]) * 60
    + DigitsValue(Split(tok[5], ":")[2])
    - (IF tok[6][1] = "-" THEN -1 ELSE 1)
      * (DigitsValue(SubSeq(tok[6], 2, 3)) * 60
         + DigitsValue(SubSeq(tok[6], 4, 5)))

\* datetime.now(), in ticks
NowTick == 1000
\* the date of the instant NowTick stands for: 2026-11-01T00:00Z
NowDate == [year |-> 2026, month |-> 11, day |-> 1]

\* convert_date_string, lines 99-106: the datetime the first 31 characters
\* parse to, None when they do not parse
convert_date_string(date_str) ==
    IF DateParses(Split(SubSeq(date_str, 1,
                               IF Len(date_str) < 31 THEN Len(date_str)
                               ELSE 31), " "))
    THEN PDatetime(
             NowTick
             + ((DateMinutes(Split(SubSeq(date_str, 1,
                                          IF Len(date_str) < 31
                                          THEN Len(date_str) ELSE 31), " "))
                 - DayNumber(NowDate.year, NowDate.month, NowDate.day) * 1440)
                * TicksPerDay)
               \div 1440)
    ELSE PNone

\* headers.get(key, ""), line 87 and 91-94: the value of the last header
\* whose lower-cased name is key
HeaderGet(headers, key) ==
    IF \A i \in 1..Len(headers) : Lower(headers[i].name) # key THEN s_empty
    ELSE headers[CHOOSE i \in 1..Len(headers) :
                     /\ Lower(headers[i].name) = key
                     /\ \A j \in (i + 1)..Len(headers) :
                            Lower(headers[j].name) # key].value

\* lines 87-97 on the message the remote returned
EmailData(msg_id, headers, snippet) ==
    Row(PStr(msg_id), PStr(HeaderGet(headers, FieldName.from)),
        PStr(HeaderGet(headers, FieldName.to)),
        PStr(HeaderGet(headers, FieldName.subject)),
        convert_date_string(HeaderGet(headers, <<"d", "a", "t", "e">>)),
        snippet)

\* retrieve_email, lines 79-97.  messages maps an identifier to the message
\* the remote holds for it; the get raises for an identifier the remote has
\* no message for.
retrieve_email(messages, msg_id) ==
    IF msg_id \notin DOMAIN messages
    THEN [exc |-> "HttpError", val |-> <<>>]
    ELSE [exc |-> "none",
          val |-> EmailData(
                      msg_id,
                      Get(Get(messages[msg_id], "payload", <<>>), "headers",
                          <<>>),
                      Get(messages[msg_id], "snippet", PStr(s_empty)))]

----------------------------------------------------------------------------
(* fetch_and_save_emails, rule_processor.py:178-201                        *)

\* f"Error processing message {msg['id']}: {error}", line 200
MessageErrLine(msg_id, e) ==
    [kind |-> "error", msg |-> "Error processing message", id |-> msg_id,
     atype |-> <<>>, label |-> <<>>, err |-> e]

\* line 198 once insert_email_pg has returned ins
Inserted(msg_id, ins) ==
    [rows |-> ins.rows, lines |-> ins.val, calls |-> <<GetCall(msg_id)>>]

\* Mutant of SaveStep: the except clause records nothing for the identifier.
SaveStep_SilentFailure(rows, up, msg_id, got) ==
    IF got.exc # "none"
    THEN [rows |-> rows, lines |-> <<>>, calls |-> <<GetCall(msg_id)>>]
    ELSE Inserted(msg_id, insert_email_pg(rows, up, got.val))

\* One pass of the loop body, lines 195-200, once retrieve_email has
\* returned or raised got: the table after it, the string appended to
\* results, the call issued.
SaveStep(rows, up, msg_id, got) ==
    IF got.exc # "none"
    THEN [rows |-> rows, lines |-> <<MessageErrLine(msg_id, got.exc)>>,
          calls |-> <<GetCall(msg_id)>>]
    ELSE Inserted(msg_id, insert_email_pg(rows, up, got.val))

\* the loop of lines 194-200 from identifier idx of the listing on
RECURSIVE SaveLoop(_, _, _, _, _, _, _)

\* the loop once the pass at idx has had the outcome step
SaveAppend(messages, listed, up, idx, results, issued, step) ==
    SaveLoop(messages, listed, up, idx + 1, step.rows,
             Append(results, step.lines), issued \o step.calls)

SaveLoop(messages, listed, up, idx, rows, results, issued) ==
    IF idx > Len(listed)
    THEN [rows |-> rows, results |-> results, calls |-> issued]
    ELSE SaveAppend(messages, listed, up, idx, results, issued,
                    SaveStep(rows, up, listed[idx],
                             retrieve_email(messages, listed[idx])))

\* line 201 once the loop has ended
SyncReported(loop, listed, creds) ==
    [exc |-> "none", val |-> Join(loop.results), calls |-> loop.calls,
     listed |-> listed, rows |-> loop.rows, credentials |-> creds]

\* lines 190-201 once fetch_emails has returned or raised fetched
Listed(fetched, messages, rows, up, creds) ==
    IF fetched.exc # "none"
    THEN [exc |-> fetched.exc, val |-> <<>>,
          calls |-> <<Authorize>> \o fetched.requests, listed |-> <<>>,
          rows |-> rows, credentials |-> creds]
    ELSE IF fetched.val = <<>>
    THEN [exc |-> "none", val |-> <<MsgLine("No messages found.")>>,
          calls |-> <<Authorize>> \o fetched.requests, listed |-> <<>>,
          rows |-> rows, credentials |-> creds]
    ELSE SyncReported(SaveLoop(messages, fetched.val, up, 1, rows, <<>>,
                               <<Authorize>> \o fetched.requests),
                      fetched.val, creds)

\* lines 184-201 with the session obtained or the exception raised
Synced(auth, remote, message_param, rows, up) ==
    IF auth.exc # "none"
    THEN [exc |-> "none",
          val |-> <<MsgLine("Error authenticating with Gmail")>>,
          calls |-> <<>>, listed |-> <<>>, rows |-> rows,
          credentials |-> auth.credentials]
    ELSE Listed(fetch_emails(remote.pages, message_param, remote.fail_at),
                remote.messages, rows, up, auth.credentials)

\* The whole function.  remote is the mailbox: the pages of its listing,
\* the messages it holds, and the list request that fails (0 for none).
\* val is the report, calls the session and the remote calls in order,
\* listed the identifiers fetch_emails returned, rows the table afterwards.
fetch_and_save_emails(creds, remote, message_param, rows, up) ==
    Synced(authorize_email_service(creds), remote, message_param, rows, up)

----------------------------------------------------------------------------
(* Inputs                                                                  *)

\* every str of at most n characters over {a, A, b}
Strings(n) == UNION {[1..k -> {"a", "A", "b"}] : k \in 0..n}
TextValues == Strings(MaxLen)

\* the ages, in whole days, of the timestamps drawn
AgeSamples == {-1, 0, 5, 7, 10, 209, 210, 211}
\* every instant of those days
Timestamps == {NowTick - d * TicksPerDay - f :
                   d \in AgeSamples, f \in 0..(TicksPerDay - 1)}

FieldValues == {PStr(v) : v \in TextValues}
               \cup {PDatetime(ts) : ts \in Timestamps} \cup {PNone}

\* predicates as a ruleset may spell them
PredicateSamples == {PredicateName.contains, PredicateName.does_not_contain, PredicateName.equals,
                     PredicateName.does_not_equal, PredicateName.less_than, PredicateName.greater_than,
                     Sample.Contains_cap, Sample.EQUALS_up, Sample.Less_Than_cap, Sample.matches}
\* threshold values and units of date conditions
ThresholdSamples == {PStr(Sample.d7), PStr(Sample.sp7), PStr(Sample.minus1), PStr(Sample.d0), PStr(Sample.x),
                     PStr(s_empty), PInt(7), PNone}
UnitSamples == {PStr(UnitName.days), PStr(UnitName.months), PStr(Sample.Months_cap), PStr(Sample.weeks),
                PNone}

TextConditions == {[predicate |-> PStr(p), value |-> PStr(v)] :
                       p \in PredicateSamples, v \in TextValues}
DateConditions ==
    {[predicate |-> PStr(p), value |-> v] :
         p \in {PredicateName.less_than, PredicateName.greater_than, Sample.Less_Than_cap, PredicateName.contains},
         v \in ThresholdSamples}
    \cup {[predicate |-> PStr(p), value |-> v, unit |-> u] :
              p \in {PredicateName.less_than, PredicateName.greater_than, Sample.Less_Than_cap},
              v \in ThresholdSamples, u \in UnitSamples}
\* conditions lacking a key, or with a predicate or value of another type
OddConditions == {[value |-> PStr(Sample.a)],
                  [predicate |-> PStr(PredicateName.contains)],
                  [predicate |-> PNone, value |-> PStr(Sample.a)],
                  [predicate |-> PStr(PredicateName.contains), value |-> PInt(7)],
                  [predicate |-> PStr(PredicateName.equals), value |-> PNone],
                  [predicate |-> PStr(Sample.matches), value |-> PNone]}
Conditions == TextConditions \cup DateConditions \cup OddConditions

----------------------------------------------------------------------------
(* Inputs of evaluate_email_rules                                          *)

\* datetime of a given age in days
Aged(days) == PDatetime(NowTick - days * TicksPerDay)

\* a record as the tests build it (tests/test_cases.py:52-57, 128-134):
\* the sender under the key "from", no "sender" key
TestRecord(email_id, from, subject, received_date, message) ==
    (AttributeName.email_id :> email_id) @@ (FieldName.from :> from) @@ (FieldName.subject :> subject)
    @@ (AttributeName.received_date :> received_date) @@ (FieldName.message :> message)

EmailSamples ==
    { Row(PStr(Sample.m1), PStr(Sample.ab), PStr(Sample.b), PStr(Sample.A_up), Aged(5), PStr(Sample.ba)),
      Row(PStr(Sample.m2), PStr(Sample.B_up), PStr(s_empty), PStr(Sample.aB), Aged(10),
          PStr(Sample.a)),
      Row(PStr(Sample.m3), PNone, PNone, PNone, PNone, PNone),
      TestRecord(PStr(Sample.m1), PStr(Sample.ab), PStr(Sample.Ab), Aged(3), PStr(Sample.b)) }

RuleSamples ==
    { [field |-> PStr(Sample.From_cap), predicate |-> PStr(PredicateName.contains),
       value |-> PStr(Sample.a)],
      [field |-> PStr(Sample.Subject_cap), predicate |-> PStr(PredicateName.contains),
       value |-> PStr(Sample.B_up)],
      [field |-> PStr(FieldName.to), predicate |-> PStr(PredicateName.equals),
       value |-> PStr(Sample.B_up)],
      [field |-> PStr(Sample.MESSAGE_up), predicate |-> PStr(PredicateName.does_not_contain),
       value |-> PStr(Sample.a)],
      [field |-> PStr(FieldName.message), predicate |-> PStr(PredicateName.contains),
       value |-> PStr(Sample.a)],
      [field |-> PStr(Sample.ReceivedAt), predicate |-> PStr(PredicateName.less_than),
       value |-> PStr(Sample.d7), unit |-> PStr(UnitName.days)],
      [field |-> PStr(Sample.Received_Date_Time),
       predicate |-> PStr(PredicateName.greater_than), value |-> PStr(Sample.d7)],
      [field |-> PStr(AttributeName.email_id), predicate |-> PStr(PredicateName.equals),
       value |-> PStr(s_empty)],
      [field |-> PStr(AttributeName.sender), predicate |-> PStr(PredicateName.contains),
       value |-> PStr(Sample.a)],
      [field |-> PStr(Sample.x), predicate |-> PStr(PredicateName.equals),
       value |-> PStr(s_empty)],
      [predicate |-> PStr(PredicateName.equals), value |-> PStr(s_empty)],
      [field |-> PStr(Sample.From_cap), value |-> PStr(Sample.a)],
      [field |-> PStr(Sample.Subject_cap), predicate |-> PStr(PredicateName.contains),
       value |-> PInt(7)] }

\* every list of at most n elements of S
Lists(S, n) == UNION {[1..k -> S] : k \in 0..n}

\* match policies: as the rule editor writes them, in other spellings, a
\* word that names no policy, and JSON null
PolicySamples == {PStr(PolicyName.All), PStr(PolicyName.all), PStr(Sample.Any_cap), PStr(Sample.any),
                  PStr(Sample.delete), PNone}

Rulesets ==
    {[rules |-> rs] : rs \in Lists(RuleSamples, MaxRules)}
    \cup {[rules |-> rs, match_policy |-> p] :
              rs \in Lists(RuleSamples, MaxRules), p \in PolicySamples}
    \cup {[match_policy |-> p] : p \in PolicySamples}

----------------------------------------------------------------------------
(* Specification of the predicate evaluator and the ruleset matcher: one   *)
(* call of check_condition or evaluate_email_rules on drawn arguments      *)

world == <<rules_file, store, store_up, credentials>>

InitWorld ==
    /\ calls = <<>>
    /\ rules_file = [exists |-> FALSE, doc |-> DocNull]
    /\ store = <<>>
    /\ store_up = TRUE
    /\ credentials = "token"

InitEval ==
    /\ op = "pending"
    /\ ret = Return(FALSE)
    /\ InitWorld
    /\ \/ \E email_value \in FieldValues, condition \in Conditions :
              args = [fn |-> "check_condition", email_value |-> email_value,
                      condition |-> condition, now |-> NowTick]
       \/ \E email \in EmailSamples, ruleset \in Rulesets :
              args = [fn |-> "evaluate_email_rules", email |-> email,
                      ruleset |-> ruleset, now |-> NowTick]

CheckCondition ==
    /\ op = "pending"
    /\ args.fn = "check_condition"
    /\ op' = "check_condition"
    /\ ret' = check_condition(args.email_value, args.condition, args.now)
    /\ UNCHANGED <<args, calls, world>>

EvaluateEmailRules ==
    /\ op = "pending"
    /\ args.fn = "evaluate_email_rules"
    /\ op' = "evaluate_email_rules"
    /\ ret' = evaluate_email_rules(args.email, args.ruleset, args.now)
    /\ UNCHANGED <<args, calls, world>>

NextEval == CheckCondition \/ EvaluateEmailRules

SpecEval == InitEval /\ [][NextEval]_vars

----------------------------------------------------------------------------
(* Specification of the action dispatcher: one call of                     *)
(* execute_email_actions on a drawn action list and failure pattern        *)

ActionSamples ==
    {[action |-> PStr(t)] :
         t \in {ActionName.mark_as_read, ActionName.mark_as_unread, ActionName.star, ActionName.unstar, ActionName.archive,
                ActionName.trash, ActionName.move_message, Sample.Star_cap, Sample.TRASH_up, Sample.delete,
                s_empty}}
    \cup {[action |-> PStr(ActionName.move_message), destination |-> d] :
              d \in {PStr(LabelName.inbox), PStr(LabelName.forum), PStr(LabelName.updates),
                     PStr(LabelName.promotions), PStr(Sample.Forum_cap), PStr(Sample.work),
                     PStr(Sample.Work_cap), PNone}}
    \cup {[action |-> PStr(Sample.Move_Message_cap),
           destination |-> PStr(Sample.Updates_cap)],
          [destination |-> PStr(LabelName.forum)]}

ActionLists == Lists(ActionSamples, MaxActions)

InitDispatch ==
    /\ op = "pending"
    /\ ret = Return(FALSE)
    /\ InitWorld
    /\ \E actions_list \in ActionLists, fails \in SUBSET (1..MaxActions) :
           args = [fn |-> "execute_email_actions", email_id |-> Sample.m1,
                   actions_list |-> actions_list, fails |-> fails]

\* what a call of execute_email_actions leaves behind
ExecuteReturns(ex) ==
    /\ ret' = [exc |-> ex.exc, val |-> ex.val]
    /\ calls' = ex.calls

ExecuteEmailActions ==
    /\ op = "pending"
    /\ args.fn = "execute_email_actions"
    /\ op' = "execute_email_actions"
    /\ ExecuteReturns(execute_email_actions(args.email_id, args.actions_list,
                                            args.fails))
    /\ UNCHANGED <<args, world>>

NextDispatch == ExecuteEmailActions

SpecDispatch == InitDispatch /\ [][NextDispatch]_vars

----------------------------------------------------------------------------
(* Claims on execute_email_actions, checked under SpecDispatch             *)

Dispatched == op = "execute_email_actions"

\* the action type of the action at position i, as the dispatcher reads it
TypeAt(i) == Lower(Get(args.actions_list[i], "action", PStr(s_empty)).s)
\* the destination of the action at position i ("inbox" when absent)
DestinationAt(i) == Get(args.actions_list[i], "destination", PStr(LabelName.inbox))
\* the action at position i names one of the seven remote operations
Recognised(i) == TypeAt(i) \in ActionTypes
\* ... and its remote call can be built
Callable(i) == /\ Recognised(i)
               /\ TypeAt(i) = ActionName.move_message => DestinationAt(i).t = "str"
\* the positions in calls of the remote calls issued for action i
CallsOf(i) == {k \in 1..Len(calls) : calls[k].pos = i}
\* the outcome entries of a report: its lines, none for the empty report
Entries(text) == IF text = <<BlankLine>> THEN <<>> ELSE text

RECURSIVE RecognisedFrom(_)
RecognisedFrom(i) ==
    IF i > Len(args.actions_list) THEN <<>>
    ELSE IF Recognised(i) THEN <<i>> \o RecognisedFrom(i + 1)
    ELSE RecognisedFrom(i + 1)

\* the entry is the success entry / a failure entry of the action at i
IsSuccessOf(line, i) ==
    /\ line.kind = "ok" /\ line.id = args.email_id
    /\ line.msg = OkMessage(TypeAt(i))
IsFailureOf(line, i) ==
    /\ line.kind = "error" /\ line.id = args.email_id
    /\ line.atype = TypeAt(i)
\* the remote call of action i was issued and did not fail
Succeeded(i) == Callable(i) /\ i \notin args.fails

\* C2 as claimed: one entry per action of the list, in order, for any action
\* type string; entry i is a success entry iff call i succeeded; the empty
\* list gives the empty report and no call.
C2_Original ==
    Dispatched =>
        /\ ret.exc = "none"
        /\ Len(Entries(ret.val)) = Len(args.actions_list)
        /\ \A i \in 1..Len(args.actions_list) :
               i <= Len(Entries(ret.val)) =>
                   (Entries(ret.val)[i].kind = "ok" <=> Succeeded(i))
        /\ args.actions_list = <<>> =>
               ret.val = <<BlankLine>> /\ calls = <<>>

\* C2 as amended: one entry per action of a recognised type, in declaration
\* order; an action of any other type contributes no entry and no call;
\* the entry is a success entry iff that action's remote call succeeded; the
\* empty list gives the empty report and no call.
C2_EntryPerRecognisedAction ==
    Dispatched =>
        LET entries == Entries(ret.val)
            recognised == RecognisedFrom(1)
        IN  /\ ret.exc = "none"
            /\ Len(entries) = Len(recognised)
            /\ \A k \in 1..Len(recognised) :
                   k <= Len(entries) =>
                       IF Succeeded(recognised[k])
                       THEN IsSuccessOf(entries[k], recognised[k])
                       ELSE IsFailureOf(entries[k], recognised[k])
            /\ \A i \in 1..Len(args.actions_list) :
                   ~Recognised(i) => CallsOf(i) = {}
            /\ args.actions_list = <<>> =>
                   ret.val = <<BlankLine>> /\ calls = <<>>

\* C2 witness: an unrecognised type before a recognised one whose call
\* fails: one entry, the failure of the second action.
C2_Witness ==
    /\ Dispatched
    /\ args.actions_list = <<[action |-> PStr(Sample.delete)],
                             [action |-> PStr(ActionName.archive)]>>
    /\ args.fails = {2}
    /\ Len(ret.val) = 1 /\ ret.val[1].kind = "error"
    /\ ret.val[1].atype = ActionName.archive
    /\ Len(calls) = 1

\* the marker token the claim gives for a destination
TokenOf(destination) ==
    CASE Lower(destination) = LabelName.inbox -> LabelName.INBOX
      [] Lower(destination) = LabelName.forum -> LabelName.CATEGORY_FORUMS
      [] Lower(destination) = LabelName.updates -> LabelName.CATEGORY_UPDATES
      [] Lower(destination) = LabelName.promotions -> LabelName.CATEGORY_PROMOTIONS
      [] OTHER -> Upper(destination)

\* the mutation the claim gives for the action at position i
MutationOf(i) ==
    CASE TypeAt(i) = ActionName.mark_as_read ->
             [api |-> "modify", remove |-> <<LabelName.UNREAD>>, add |-> <<>>]
      [] TypeAt(i) = ActionName.mark_as_unread ->
             [api |-> "modify", remove |-> <<>>, add |-> <<LabelName.UNREAD>>]
      [] TypeAt(i) = ActionName.star ->
             [api |-> "modify", remove |-> <<>>, add |-> <<LabelName.STARRED>>]
      [] TypeAt(i) = ActionName.unstar ->
             [api |-> "modify", remove |-> <<LabelName.STARRED>>, add |-> <<>>]
      [] TypeAt(i) = ActionName.archive ->
             [api |-> "modify", remove |-> <<LabelName.INBOX>>, add |-> <<>>]
      [] TypeAt(i) = ActionName.trash ->
             [api |-> "trash", remove |-> <<>>, add |-> <<>>]
      [] TypeAt(i) = ActionName.move_message ->
             [api |-> "modify", remove |-> <<LabelName.INBOX>>,
              add |-> <<TokenOf(DestinationAt(i).s)>>]

\* C3: every remote call issued is the mutation the mapping gives for its
\* action, on the record dispatched, and every action whose mutation can be
\* built issues it.
C3_ActionMapping ==
    Dispatched =>
        /\ \A k \in 1..Len(calls) :
               LET i == calls[k].pos
               IN  /\ Callable(i)
                   /\ calls[k].id = args.email_id
                   /\ calls[k].api = MutationOf(i).api
                   /\ calls[k].remove = MutationOf(i).remove
                   /\ calls[k].add = MutationOf(i).add
        /\ \A i \in 1..Len(args.actions_list) :
               Callable(i) => CallsOf(i) # {}

\* C3 witness: a move to a destination outside the map adds the
\* upper-cased destination and removes inbox.
C3_Witness ==
    /\ Dispatched
    /\ args.actions_list = <<[action |-> PStr(ActionName.move_message),
                              destination |-> PStr(Sample.Work_cap)]>>
    /\ Len(calls) = 1
    /\ calls[1].remove = <<LabelName.INBOX>> /\ calls[1].add = <<Sample.WORK_up>>

----------------------------------------------------------------------------
(* Claims on check_condition and evaluate_email_rules, checked under       *)
(* SpecEval                                                                *)

Checked == op = "check_condition"
Evaluated == op = "evaluate_email_rules"

\* the conditions of the ruleset evaluated
RulesOf == Get(args.ruleset, "rules", <<>>)
\* the lower-cased field name of condition i
FieldOf(i) == Lower(Get(RulesOf[i], "field", PStr(s_empty)).s)
\* what condition i evaluates to on the record, taken alone
CondResult(i) ==
    check_condition(ResolveField(args.email, FieldOf(i)), RulesOf[i],
                    args.now)
\* every condition of the ruleset evaluates to a boolean
AllBoolean == \A i \in 1..Len(RulesOf) : CondResult(i).exc = "none"
\* the ruleset states its match policy, as a str
PolicyIs(p) == /\ Has(args.ruleset, "match_policy")
               /\ args.ruleset["match_policy"].t = "str"
               /\ Lower(args.ruleset["match_policy"].s) = p

\* C4: under policy all the matcher returns true iff every condition is
\* true, under any iff at least one is; with no condition, true under all
\* and false under any.
C4_MatchPolicy ==
    (Evaluated /\ AllBoolean) =>
        /\ PolicyIs(PolicyName.all) =>
               /\ ret.exc = "none"
               /\ ret.val = (\A i \in 1..Len(RulesOf) : CondResult(i).val)
               /\ RulesOf = <<>> => ret.val = TRUE
        /\ PolicyIs(Sample.any) =>
               /\ ret.exc = "none"
               /\ ret.val = (\E i \in 1..Len(RulesOf) : CondResult(i).val)
               /\ RulesOf = <<>> => ret.val = FALSE

\* C4 witness: results [true, false] under any: the record matches.
C4_Witness ==
    /\ Evaluated
    /\ PolicyIs(Sample.any)
    /\ ret.evals = <<TRUE, FALSE>>
    /\ ret.exc = "none" /\ ret.val = TRUE

\* a occurs in b: some slice of b is a
Occurs(a, b) == \E i \in 1..(Len(b) - Len(a) + 1) :
                    SubSeq(b, i, i + Len(a) - 1) = a

\* the condition of the call has a str predicate and a value
WellFormed == /\ Has(args.condition, "predicate")
              /\ args.condition["predicate"].t = "str"
              /\ Has(args.condition, "value")
PredicateOf == Lower(args.condition["predicate"].s)

\* C5: on a text field value and a text condition value the four text
\* predicates compare the lower-cased strings (substring membership or
\* equality), and every other predicate gives false.
C5_TextPredicates ==
    (/\ Checked /\ WellFormed
     /\ args.email_value.t = "str" /\ args.condition["value"].t = "str") =>
        LET field == Lower(args.email_value.s)
            value == Lower(args.condition["value"].s)
        IN  /\ ret.exc = "none"
            /\ ret.val =
                   CASE PredicateOf = PredicateName.contains -> Occurs(value, field)
                     [] PredicateOf = PredicateName.does_not_contain ->
                            ~Occurs(value, field)
                     [] PredicateOf = PredicateName.equals -> field = value
                     [] PredicateOf = PredicateName.does_not_equal -> field # value
                     [] OTHER -> FALSE

\* C5 witness: "ab" contains "A" although the cases differ.
C5_Witness ==
    /\ Checked
    /\ args.email_value = PStr(Sample.ab)
    /\ args.condition = [predicate |-> PStr(PredicateName.contains),
                         value |-> PStr(Sample.A_up)]
    /\ ret.val = TRUE

\* the whole days between the timestamp and now: the e with
\* e days <= now - timestamp < e + 1 days
WholeDays ==
    LET delta == args.now - args.email_value.n
        far == (IF delta < 0 THEN 0 - delta ELSE delta) + 1
    IN  CHOOSE e \in (0 - far)..far :
            /\ e * TicksPerDay <= delta
            /\ delta < (e + 1) * TicksPerDay

\* the condition value is an integer, given as a number or as its numeral
IntegerValue == \/ args.condition["value"].t = "int"
                \/ /\ args.condition["value"].t = "str"
                   /\ IntParses(args.condition["value"].s)
ValueAsInteger == IF args.condition["value"].t = "int"
                  THEN args.condition["value"].n
                  ELSE IntOfStr(args.condition["value"].s)
\* the unit of the condition, lower-cased; days when absent
UnitStated == ~Has(args.condition, "unit") \/ args.condition["unit"].t = "str"
UnitOf == Lower(Get(args.condition, "unit", PStr(UnitName.days)).s)

\* C6: on a timestamp, with threshold the integer value, times 30 for unit
\* months, less than is elapsed days < threshold and greater than is
\* elapsed days > threshold; the value "7" is 7 days, or 210 days in months.
C6_DateThreshold ==
    (/\ Checked /\ WellFormed /\ args.email_value.t = "datetime"
     /\ PredicateOf \in {PredicateName.less_than, PredicateName.greater_than}
     /\ IntegerValue /\ UnitStated) =>
        LET threshold == IF UnitOf = UnitName.months THEN ValueAsInteger * 30
                         ELSE ValueAsInteger
        IN  /\ ret.exc = "none"
            /\ PredicateOf = PredicateName.less_than => ret.val = (WholeDays < threshold)
            /\ PredicateOf = PredicateName.greater_than =>
                   ret.val = (WholeDays > threshold)
            /\ args.condition["value"] = PStr(Sample.d7) =>
                   threshold = IF UnitOf = UnitName.months THEN 210 ELSE 7

\* C6 witness: 209 days old, less than "7" months: true, as 209 < 210.
C6_Witness ==
    /\ Checked
    /\ args.email_value = Aged(209)
    /\ args.condition = [predicate |-> PStr(PredicateName.less_than),
                         value |-> PStr(Sample.d7), unit |-> PStr(UnitName.months)]
    /\ ret.val = TRUE

\* C7 as claimed: evaluation is total, a call of check_condition or of
\* evaluate_email_rules never raises.
C7_Total == (Checked \/ Evaluated) => ret.exc = "none"

\* the attribute the claim gives for a field name outside the five
ClosedFallback(i) == PStr(s_empty)
\* the attribute the code reads for it: the one of that name, if any
OpenFallback(i) == Get(args.email, FieldOf(i), PStr(s_empty))

\* the value condition i is evaluated on, given the fallback
Resolution(i, fallback) ==
    CASE FieldOf(i) = FieldName.from -> Get(args.email, AttributeName.sender, PStr(s_empty))
      [] FieldOf(i) = FieldName.to -> Get(args.email, AttributeName.recipient, PStr(s_empty))
      [] FieldOf(i) = FieldName.subject -> Get(args.email, FieldName.subject, PStr(s_empty))
      [] FieldOf(i) = FieldName.message -> Get(args.email, FieldName.message, PStr(s_empty))
      [] FieldOf(i) \notin {FieldName.from, FieldName.to, FieldName.subject, FieldName.message}
         /\ Occurs(FieldName.received, FieldOf(i)) ->
             Get(args.email, AttributeName.received_date, PNone)
      [] OTHER -> fallback

\* C8 as claimed: the five fields resolve to the five attributes and every
\* other field name resolves to the empty string, whatever the record holds.
C8_Original ==
    Evaluated => \A i \in 1..Len(ret.fields) :
                     ret.fields[i] = Resolution(i, ClosedFallback(i))

\* C8 as amended: From, To, Subject and Message resolve (in any case) to
\* sender, recipient, subject and message, a field name containing
\* "received" to the received timestamp, and every other field name to the
\* record attribute whose key is the lower-cased name, the empty string
\* when the record has no such attribute.
C8_FieldResolution ==
    Evaluated => \A i \in 1..Len(ret.fields) :
                     ret.fields[i] = Resolution(i, OpenFallback(i))

\* C8 witness: the field email_id resolves to the record's identifier.
C8_Witness ==
    /\ Evaluated
    /\ Len(RulesOf) = 1 /\ FieldOf(1) = AttributeName.email_id
    /\ ret.fields = <<PStr(Sample.m1)>>

\* C9 as claimed: on a record that keeps the sender under "from", a
\* condition From contains v is true when that value contains v, so the
\* ruleset All [From contains a, Subject contains B] matches the test
\* record whose from is "ab" and subject "Ab".
C9_TestRecordMatches ==
    (/\ Evaluated
     /\ Has(args.email, FieldName.from) /\ ~Has(args.email, AttributeName.sender)
     /\ args.ruleset =
            [rules |-> <<[field |-> PStr(Sample.From_cap),
                          predicate |-> PStr(PredicateName.contains),
                          value |-> PStr(Sample.a)],
                         [field |-> PStr(Sample.Subject_cap),
                          predicate |-> PStr(PredicateName.contains),
                          value |-> PStr(Sample.B_up)]>>,
             match_policy |-> PStr(PolicyName.All)]
     /\ Occurs(Sample.a, Lower(args.email[FieldName.from].s))
     /\ Occurs(Sample.b, Lower(args.email[FieldName.subject].s))) =>
        ret.exc = "none" /\ ret.val = TRUE

----------------------------------------------------------------------------
(* Inputs of fetch_emails and fetch_and_save_emails                        *)

\* the most identifiers a listing holds, and the most pages it is spread over
MaxListed == 3
MaxPages == 3

\* selectors, identifiers, header names and Date headers drawn as inputs
SyncSample ==
    [
     one |-> <<"1">>,
     two |-> <<"2">>,
     three |-> <<"3">>,
     over_cap |-> <<"1", "0", "1">>,
     superscript |-> <<"^2">>,
     query |-> <<"n", "e", "w", "e", "r", "_", "t", "h", "a", "n", ":", "7",
             "d">>,
     m5 |-> <<"m", "5">>,
     To_cap |-> <<"T", "o">>,
     Date_cap |-> <<"D", "a", "t", "e">>,
     FROM_up |-> <<"F", "R", "O", "M">>,
     days5 |-> <<"T", "u", "e", ",", " ", "2", "7", " ", "O", "c", "t", " ",
             "2", "0", "2", "6", " ", "0", "0", ":", "0", "0", ":", "0", "0",
             " ", "+", "0", "0", "0", "0">>,
     days10_utc |-> <<"T", "h", "u", ",", " ", "2", "2", " ", "O", "c", "t",
             " ", "2", "0", "2", "6", " ", "0", "0", ":", "0", "0", ":", "0",
             "0", " ", "+", "0", "0", "0", "0", " ", "(", "U", "T", "C", ")">>,
     short_day_utc |-> <<"M", "o", "n", ",", " ", "2", " ", "N", "o", "v",
             " ", "2", "0", "2", "6", " ", "1", "0", ":", "0", "0", ":", "0",
             "0", " ", "+", "0", "0", "0", "0", " ", "(", "U", "T", "C", ")">>
    ]

\* a header of a message
Header(name, value) == [name |-> name, value |-> value]

\* the messages the remote holds, by identifier; it holds none for m5
MessageSamples ==
    (Sample.m1 :>
         [payload |-> [headers |-> <<Header(Sample.From_cap, Sample.ab),
                                     Header(SyncSample.To_cap, Sample.b),
                                     Header(Sample.Subject_cap, Sample.A_up),
                                     Header(SyncSample.Date_cap,
                                            SyncSample.days5)>>],
          snippet |-> PStr(Sample.ba)])
    @@ (Sample.m2 :>
         [payload |-> [headers |-> <<Header(SyncSample.FROM_up, Sample.B_up),
                                     Header(FieldName.subject, Sample.x),
                                     Header(Sample.Subject_cap, Sample.aB),
                                     Header(SyncSample.Date_cap,
                                            SyncSample.days10_utc)>>],
          snippet |-> PStr(Sample.a)])
    @@ (Sample.m3 :> [snippet |-> PStr(Sample.b)])
    @@ (Sample.m4 :>
         [payload |-> [headers |-> <<Header(Sample.From_cap, Sample.ab),
                                     Header(SyncSample.Date_cap,
                                            SyncSample.short_day_utc)>>]])

\* the identifiers of a mailbox in remote order
MailboxSamples == << <<Sample.m3, SyncSample.m5, Sample.m1, Sample.m2>>,
                     <<Sample.m4, Sample.m2, Sample.m1, Sample.m3>> >>

\* every way to spread the listing ids over exactly n pages, a page may be
\* empty
RECURSIVE PagesOf(_, _)
PagesOf(ids, n) ==
    IF n = 1 THEN {<<ids>>}
    ELSE UNION {{<<SubSeq(ids, 1, k)>> \o rest :
                    rest \in PagesOf(SubSeq(ids, k + 1, Len(ids)), n - 1)} :
                k \in 0..Len(ids)}

\* the listings of a mailbox: its first k identifiers over up to MaxPages
\* pages
Listings(mailbox) ==
    UNION {PagesOf(SubSeq(mailbox, 1, k), n) :
               k \in 0..MaxListed, n \in 1..MaxPages}

\* a remote: the pages of its listing, its messages, the failing request
Remote(pages, fail_at) ==
    [pages |-> pages, messages |-> MessageSamples, fail_at |-> fail_at]

SelectorSamples == {Sample.d0, SyncSample.one, SyncSample.two,
                    SyncSample.three, SyncSample.over_cap,
                    SyncSample.superscript, SyncSample.query, s_empty}

----------------------------------------------------------------------------
(* Specification of the sync: one call of fetch_emails or                  *)
(* fetch_and_save_emails on a drawn remote and selector                    *)

InitSync ==
    /\ op = "pending"
    /\ ret = Return(FALSE)
    /\ calls = <<>>
    /\ rules_file = [exists |-> FALSE, doc |-> DocNull]
    /\ store \in {<<>>, <<Row(PStr(Sample.m1), PStr(Sample.b), PNone,
                             PStr(Sample.a), Aged(7), PStr(s_empty))>>}
    /\ store_up \in BOOLEAN
    /\ credentials \in CredentialStates
    /\ \E m \in 1..Len(MailboxSamples), count_or_query \in SelectorSamples,
          fail_at \in 0..2 :
           \E pages \in Listings(MailboxSamples[m]) :
               \/ /\ args = [fn |-> "fetch_emails",
                             remote |-> Remote(pages, fail_at),
                             count_or_query |-> count_or_query]
                  /\ store = <<>> /\ store_up /\ credentials = "token"
               \/ args = [fn |-> "fetch_and_save_emails",
                          remote |-> Remote(pages, fail_at),
                          count_or_query |-> count_or_query]

\* what a call of fetch_emails leaves behind
FetchReturns(fetched) ==
    /\ ret' = [exc |-> fetched.exc, val |-> fetched.val]
    /\ calls' = fetched.requests

FetchEmails ==
    /\ op = "pending"
    /\ args.fn = "fetch_emails"
    /\ op' = "fetch_emails"
    /\ FetchReturns(fetch_emails(args.remote.pages, args.count_or_query,
                                 args.remote.fail_at))
    /\ UNCHANGED <<args, world>>

\* what a call of fetch_and_save_emails leaves behind
SyncReturns(sync) ==
    /\ ret' = [exc |-> sync.exc, val |-> sync.val, listed |-> sync.listed]
    /\ calls' = sync.calls
    /\ store' = sync.rows
    /\ credentials' = sync.credentials

FetchAndSaveEmails ==
    /\ op = "pending"
    /\ args.fn = "fetch_and_save_emails"
    /\ op' = "fetch_and_save_emails"
    /\ SyncReturns(fetch_and_save_emails(credentials, args.remote,
                                         args.count_or_query, store,
                                         store_up))
    /\ UNCHANGED <<args, rules_file, store_up>>

NextSync == FetchEmails \/ FetchAndSaveEmails

SpecSync == InitSync /\ [][NextSync]_vars

----------------------------------------------------------------------------
(* Specification of the paging loop of fetch_emails, one list request per  *)
(* step: op is "pending" before the first request, "paging" between two    *)
(* requests and "paged" once the function has returned or raised; calls    *)
(* are the requests issued, ret.val the identifiers gathered and           *)
(* ret.response the response held                                          *)

\* lines 53-59: how the selector is read
Selector(count_or_query) ==
    IF StrIsDigit(count_or_query)
    THEN [digit |-> TRUE, desired_count |-> IntOfStr(count_or_query),
          query_text |-> s_empty,
          max_results |-> IF IntOfStr(count_or_query) < PageMax
                          THEN IntOfStr(count_or_query) ELSE PageMax]
    ELSE [digit |-> FALSE, desired_count |-> 0,
          query_text |-> count_or_query, max_results |-> PageMax]

\* the response to the request for page p: its messages, and the token of
\* the next page, p itself, 0 standing for a response without one
Response(pages, p) ==
    [messages |-> pages[p],
     nextPageToken |-> IF p < Len(pages) THEN p ELSE 0]

\* Mutant of Continues: the count gathered is not looked at.
Continues_IgnoreCount(response, sel, emails) ==
    response.nextPageToken # 0

\* the loop condition of line 67
Continues(response, sel, emails) ==
    /\ response.nextPageToken # 0
    /\ (~sel.digit \/ Len(emails) < sel.desired_count)

\* one list request, lines 61-64 and 69-72: request number p raises, or
\* its messages are added to those gathered
Listing(pages, fail_at, sel, page_token, emails, p) ==
    /\ calls' = Append(calls, ListCall(sel.max_results, sel.query_text,
                                       page_token))
    /\ IF fail_at = p
       THEN op' = "paged" /\ ret' = [exc |-> "HttpError", val |-> <<>>]
       ELSE /\ op' = "paging"
            /\ ret' = [exc |-> "none",
                       val |-> emails \o Response(pages, p).messages,
                       response |-> Response(pages, p)]

InitPaging ==
    /\ op = "pending"
    /\ ret = Return(FALSE)
    /\ InitWorld
    /\ \E m \in 1..Len(MailboxSamples), count_or_query \in SelectorSamples,
          fail_at \in 0..2 :
           \E pages \in Listings(MailboxSamples[m]) :
               args = [fn |-> "fetch_emails",
                       remote |-> Remote(pages, fail_at),
                       count_or_query |-> count_or_query]

\* lines 51-64: the selector is read and the first page is asked for
ListFirst ==
    /\ op = "pending"
    /\ IF StrIsDigit(args.count_or_query) /\ ~IntParses(args.count_or_query)
       THEN op' = "paged" /\ ret' = [exc |-> "ValueError", val |-> <<>>]
            /\ UNCHANGED calls
       ELSE Listing(args.remote.pages, args.remote.fail_at,
                    Selector(args.count_or_query), 0, <<>>, 1)
    /\ UNCHANGED <<args, world>>

\* lines 67-72: one more pass of the loop
ListNext ==
    /\ op = "paging"
    /\ Continues(ret.response, Selector(args.count_or_query), ret.val)
    /\ Listing(args.remote.pages, args.remote.fail_at,
               Selector(args.count_or_query), ret.response.nextPageToken,
               ret.val, ret.response.nextPageToken + 1)
    /\ UNCHANGED <<args, world>>

\* lines 74-77: the loop is left and the identifiers are returned
ReturnEmails ==
    /\ op = "paging"
    /\ ~Continues(ret.response, Selector(args.count_or_query), ret.val)
    /\ op' = "paged"
    /\ ret' = [exc |-> "none",
               val |-> IF /\ Selector(args.count_or_query).digit
                          /\ Len(ret.val)
                                 > Selector(args.count_or_query).desired_count
                       THEN SubSeq(ret.val, 1,
                                Selector(args.count_or_query).desired_count)
                       ELSE ret.val]
    /\ UNCHANGED <<args, calls, world>>

NextPaging == ListFirst \/ ListNext \/ ReturnEmails

\* the function runs on its own thread of control: a step that can be
\* taken is taken
SpecPaging == InitPaging /\ [][NextPaging]_vars /\ WF_vars(NextPaging)

----------------------------------------------------------------------------
(* Specification of the program: the rules file, the emails table and the  *)
(* credentials on disk, and the operations run against them                *)

\* rulesets as the rule editor saves them (main_cli.py:167)
Ruleset(match_policy, rules, actions) ==
    DocDict([match_policy |-> match_policy, rules |-> rules,
             actions |-> actions])

FromContainsA == [field |-> PStr(Sample.From_cap), predicate |-> PStr(PredicateName.contains),
                  value |-> PStr(Sample.a)]
SubjectContainsB == [field |-> PStr(Sample.Subject_cap),
                     predicate |-> PStr(PredicateName.contains), value |-> PStr(Sample.B_up)]
ReceivedLessThan7 == [field |-> PStr(Sample.Received_Date_Time),
                      predicate |-> PStr(PredicateName.less_than), value |-> PStr(Sample.d7),
                      unit |-> PStr(UnitName.days)]

\* what the rules file may hold: rulesets, and documents that are none
DocSamples ==
    << DocUndecodable, DocNull, DocList(0), DocList(1),
       DocDict([rules |-> <<FromContainsA>>]),
       DocDict([actions |-> <<[action |-> PStr(ActionName.star)]>>]),
       Ruleset(PStr(PolicyName.All), <<FromContainsA>>,
               <<[action |-> PStr(ActionName.mark_as_read)]>>),
       Ruleset(PStr(Sample.Any_cap), <<SubjectContainsB, ReceivedLessThan7>>,
               <<[action |-> PStr(ActionName.star)], [action |-> PStr(ActionName.trash)]>>),
       Ruleset(PStr(PolicyName.All), <<>>,
               <<[action |-> PStr(ActionName.archive)],
                 [action |-> PStr(ActionName.move_message),
                  destination |-> PStr(LabelName.forum)]>>),
       Ruleset(PStr(Sample.Any_cap), <<>>, <<[action |-> PStr(ActionName.star)]>>),
       Ruleset(PStr(PolicyName.All), <<SubjectContainsB>>, <<>>),
       Ruleset(PStr(PolicyName.All), <<[field |-> PStr(Sample.From_cap),
                               value |-> PStr(Sample.a)]>>,
               <<[action |-> PStr(ActionName.star)]>>),
       Ruleset(PStr(PolicyName.All), <<>>,
               <<[action |-> PStr(Sample.delete)], [action |-> PNone]>>) >>

\* which remote calls fail during one run: for record idx, the positions
\* of the actions whose call raises
FailureSamples(n) ==
    << [idx \in 1..n |-> {}],
       [idx \in 1..n |-> {1}],
       [idx \in 1..n |-> {2}],
       [idx \in 1..n |-> IF idx = 1 THEN 1..MaxActions ELSE {}],
       [idx \in 1..n |-> 1..MaxActions] >>

Init ==
    /\ op = "init"
    /\ args = <<>>
    /\ ret = Return(FALSE)
    /\ calls = <<>>
    /\ rules_file = [exists |-> FALSE, doc |-> DocNull]
    /\ store = <<>>
    /\ store_up = TRUE
    /\ credentials \in CredentialStates

\* the rules file is written: by the rule editor (save_rules_cli,
\* main_cli.py:169-173) or by hand
SaveRules ==
    \E k \in 1..Len(DocSamples) :
        /\ op' = "save_rules"
        /\ args' = <<k>>
        /\ ret' = Return(FALSE)
        /\ rules_file' = [exists |-> TRUE, doc |-> DocSamples[k]]
        /\ UNCHANGED <<calls, store, store_up, credentials>>

\* what a call of insert_email_pg leaves behind; the table is kept to
\* MaxStore rows
InsertReturns(ins) ==
    /\ Len(ins.rows) <= MaxStore
    /\ ret' = Return(ins.val)
    /\ store' = ins.rows

\* one call of insert_email_pg
InsertEmailPg ==
    \E email_info \in EmailSamples :
        /\ op' = "insert_email_pg"
        /\ args' = [email_info |-> email_info]
        /\ InsertReturns(insert_email_pg(store, store_up, email_info))
        /\ UNCHANGED <<calls, rules_file, store_up, credentials>>

\* the database stops or resumes accepting connections
\* (psycopg2.connect raises, pg_handler.py:119-124)
StoreOutage ==
    /\ op' = "store_outage"
    /\ args' = <<>>
    /\ ret' = Return(FALSE)
    /\ store_up' = ~store_up
    /\ UNCHANGED <<calls, rules_file, store, credentials>>

\* what a call of apply_email_rules leaves behind
ApplyReturns(ap) ==
    /\ ret' = [exc |-> ap.exc, val |-> ap.val, evaluated |-> ap.evaluated]
    /\ calls' = ap.calls
    /\ credentials' = ap.credentials

\* one call of apply_email_rules
ApplyEmailRules ==
    \E k \in 1..Len(FailureSamples(Len(store))) :
        /\ op' = "apply_email_rules"
        /\ args' = [now |-> NowTick, fails |-> FailureSamples(Len(store))[k]]
        /\ ApplyReturns(apply_email_rules(rules_file, store, store_up,
                                          credentials, args'.now,
                                          args'.fails))
        /\ UNCHANGED <<rules_file, store, store_up>>

Next == SaveRules \/ InsertEmailPg \/ StoreOutage \/ ApplyEmailRules

Spec == Init /\ [][Next]_vars

----------------------------------------------------------------------------
(* Claims on apply_email_rules, checked under Spec                         *)

AppliedRules == op = "apply_email_rules"

\* the rules file is missing or cannot be decoded
RulesetAbsent == ~rules_file.exists \/ rules_file.doc.t = "undecodable"
\* the file decodes to a document that is no usable ruleset: not an object,
\* or an object without an action list
RulesetMalformed == /\ rules_file.exists
                    /\ \/ rules_file.doc.t \in {"null", "list"}
                       \/ /\ rules_file.doc.t = "dict"
                          /\ ~Has(rules_file.doc.d, "actions")
\* the record store yields no records, or an error
StoreYieldsNothing == store = <<>> \/ ~store_up

\* a single failure outcome, no record evaluated, no session, no remote call
FailedFast == /\ ret.exc = "none"
              /\ Len(ret.val) = 1 /\ ret.val[1].kind = "message"
              /\ ret.evaluated = <<>>
              /\ calls = <<>>

\* C10 as claimed: when the ruleset is absent or malformed, or the store
\* yields nothing, apply_email_rules fails fast.
C10_FailFast ==
    (AppliedRules /\ (RulesetAbsent \/ RulesetMalformed
                      \/ StoreYieldsNothing)) => FailedFast


\* a condition the rule editor can save: field, predicate and value are
\* strings, and so is the unit when there is one
EditorCondition(rule) ==
    /\ \A k \in {"field", "predicate", "value"} :
           Has(rule, k) /\ rule[k].t = "str"
    /\ Has(rule, "unit") => rule["unit"].t = "str"
\* an action the rule editor can save: its type, and its destination when
\* there is one, are strings
EditorAction(action) ==
    /\ Has(action, "action") /\ action["action"].t = "str"
    /\ Has(action, "destination") => action["destination"].t = "str"
\* the rules file holds a ruleset as the rule editor saves it
UsableRuleset ==
    /\ rules_file.exists /\ rules_file.doc.t = "dict"
    /\ \A k \in {"match_policy", "rules", "actions"} : Has(rules_file.doc.d, k)
    /\ rules_file.doc.d["match_policy"].t = "str"
    /\ \A i \in 1..Len(rules_file.doc.d["rules"]) :
           EditorCondition(rules_file.doc.d["rules"][i])
    /\ \A i \in 1..Len(rules_file.doc.d["actions"]) :
           EditorAction(rules_file.doc.d["actions"][i])
\* the run had a ruleset, records and a session
RanOnRecords == /\ AppliedRules /\ UsableRuleset
                /\ store # <<>> /\ store_up /\ credentials = "token"

\* stored record i matches the ruleset
MatchesAt(i) ==
    evaluate_email_rules(store[i], rules_file.doc.d, args.now).val
\* the stored records that match, in the order of the store
Matching == SelectSeq([i \in 1..Len(store) |-> i], LAMBDA i : MatchesAt(i))
\* the id of stored record i
IdAt(i) == store[i][AttributeName.email_id].s
\* the outcome of the ruleset's actions on stored record i
OutcomeAt(i) ==
    execute_email_actions(IdAt(i), rules_file.doc.d["actions"], args.fails[i])
\* summary line and per-action outcomes of every matching record, in order
ExpectedReport ==
    Join(Concat([k \in 1..Len(Matching) |->
                    << <<SummaryLine(IdAt(Matching[k]))>>,
                       OutcomeAt(Matching[k]).val >>]))
\* the session, then the calls of every matching record, in order
ExpectedCalls ==
    <<Authorize>>
    \o Concat([k \in 1..Len(Matching) |-> OutcomeAt(Matching[k]).calls])

\* C11: with a usable ruleset and a non-empty store the report holds, for
\* each matching record in store order, its summary line followed by its
\* per-action outcomes, nothing for the other records, and remote mutations
\* are issued for matching records only.
C11_ReportPerMatch ==
    RanOnRecords =>
        /\ ret.exc = "none"
        /\ ret.val = ExpectedReport
        /\ calls = ExpectedCalls
        /\ \A c \in 2..Len(calls) :
               \E i \in 1..Len(store) : MatchesAt(i) /\ calls[c].id = IdAt(i)
        /\ \A l \in 1..Len(ret.val) :
               ret.val[l].kind = "summary" =>
                   \E i \in 1..Len(store) :
                       MatchesAt(i) /\ ret.val[l].id = IdAt(i)

\* a run over two records of which the second matches and the first does
\* not, with a remote call issued
C11_Witness ==
    /\ RanOnRecords
    /\ Len(store) = 2 /\ ~MatchesAt(1) /\ MatchesAt(2)
    /\ Len(calls) > 1
    /\ Len(ret.val) > 1


\* the rules file decodes to a non-empty JSON object
RulesetPresent == rules_file.exists /\ rules_file.doc.t = "dict"
                  /\ DOMAIN rules_file.doc.d # {}
\* the record source yields records
RecordsPresent == store # <<>> /\ store_up

\* C12 as claimed, for apply_email_rules: once the ruleset and the records
\* are present (and a session is obtained), no failure met while handling
\* one record ends the run: it returns a report and every stored record has
\* been handled.
C12_RunCompletes ==
    (AppliedRules /\ RulesetPresent /\ RecordsPresent
     /\ credentials = "token") =>
        /\ ret.exc = "none"
        /\ ret.evaluated = [i \in 1..Len(store) |-> i]


\* C13 as claimed, for apply_email_rules: with the remote credential
\* material missing, the operation returns a single failure value, raises
\* nothing and issues no remote call.
C13_ConfigFailureReturned ==
    (AppliedRules /\ RulesetPresent /\ RecordsPresent
     /\ credentials = "missing") =>
        /\ ret.exc = "none"
        /\ Len(ret.val) = 1 /\ ret.val[1].kind = "message"
        /\ calls = <<>>


----------------------------------------------------------------------------
(* Claims on fetch_emails and fetch_and_save_emails, checked under         *)
(* SpecSync                                                                *)

FetchedEmails == op = "fetch_emails"
SyncedEmails == op = "fetch_and_save_emails"

\* the identifiers the remote holds, in remote order
RemoteIds == Concat(args.remote.pages)
\* the selector is a decimal count
CountMode == StrIsDigit(args.count_or_query) /\ IsDigits(args.count_or_query)
\* the selector is a query
QueryMode == ~StrIsDigit(args.count_or_query)
RequestedCount == DigitsValue(args.count_or_query)
Smaller(a, b) == IF a < b THEN a ELSE b
\* the identifiers of the first p pages
UpToPage(p) == Concat(SubSeq(args.remote.pages, 1, p))
\* the first page at which the count is reached or the listing ends
SatisfiedAt ==
    CHOOSE p \in 1..Len(args.remote.pages) :
        /\ p = Len(args.remote.pages) \/ Len(UpToPage(p)) >= RequestedCount
        /\ \A r \in 1..(p - 1) : Len(UpToPage(r)) < RequestedCount

\* C14: with a count n, fetch_emails returns the first min(n, k) of the k
\* identifiers of the remote, in remote order, asks for min(n, 100) per
\* page and pages until the count is reached or the listing ends; with a
\* query it asks for every page and returns every identifier.
C14_CountAndQueryListing ==
    (FetchedEmails /\ ret.exc = "none") =>
        /\ CountMode =>
              /\ ret.val = SubSeq(RemoteIds, 1,
                                  Smaller(RequestedCount, Len(RemoteIds)))
              /\ Len(calls) = SatisfiedAt
              /\ \A r \in 1..Len(calls) :
                     /\ calls[r].maxResults = Smaller(RequestedCount, PageMax)
                     /\ calls[r].q = s_empty
                     /\ calls[r].pageToken = r - 1
        /\ QueryMode =>
              /\ ret.val = RemoteIds
              /\ Len(calls) = Len(args.remote.pages)
              /\ \A r \in 1..Len(calls) :
                     /\ calls[r].maxResults = PageMax
                     /\ calls[r].q = args.count_or_query
                     /\ calls[r].pageToken = r - 1

\* a count of 3 against a remote holding 2 identifiers on two pages: both
\* are returned, nothing is raised
C14_Witness ==
    /\ FetchedEmails /\ ret.exc = "none"
    /\ args.count_or_query = SyncSample.three
    /\ Len(RemoteIds) = 2 /\ Len(args.remote.pages) = 2
    /\ Len(args.remote.pages[1]) = 1
    /\ Len(ret.val) = 2 /\ Len(calls) = 2


\* the sync obtained a session and the listing came back
Listed_ok == SyncedEmails /\ ret.exc = "none" /\ calls # <<>>
\* the remote holds a message for listed identifier i
Retrievable(i) == ret.listed[i] \in DOMAIN args.remote.messages
\* the identifiers whose message carries no Date header the format takes:
\* m3 has no headers, the first 31 characters of m4's end in a blank
NoTimestamp == {Sample.m3, Sample.m4}
\* the rows of the table with a given identifier
RowsOf(id) == {r \in 1..Len(store) : store[r][AttributeName.email_id] = PStr(id)}
\* the entry the report owes listed identifier i
EntryOwed(i) ==
    IF ~Retrievable(i) THEN MessageErrLine(ret.listed[i], "HttpError")
    ELSE IF store_up THEN OkLine(ret.listed[i], "inserted.", <<>>)
    ELSE MsgLine("Error inserting email")

\* C15: the report of a sync has one entry per listed identifier, in listing
\* order: the failure of that identifier when its fetch fails, the insert
\* outcome otherwise, and the sync goes on after a failure; a record whose
\* timestamp does not parse is stored with a null timestamp.
C15_EntryPerIdentifier ==
    Listed_ok =>
        /\ ret.listed = <<>> => ret.val = <<MsgLine("No messages found.")>>
        /\ ret.listed # <<>> =>
              /\ Len(ret.val) = Len(ret.listed)
              /\ \A i \in 1..Len(ret.listed) : ret.val[i] = EntryOwed(i)
        /\ \A i \in 1..Len(ret.listed) :
               (Retrievable(i) /\ store_up) =>
                   /\ Cardinality(RowsOf(ret.listed[i])) = 1
                   /\ \A r \in RowsOf(ret.listed[i]) :
                          IF ret.listed[i] \in NoTimestamp
                          THEN store[r][AttributeName.received_date] = PNone
                          ELSE store[r][AttributeName.received_date].t
                                   = "datetime"

\* a sync of three identifiers: the first has no timestamp and is stored
\* with a null one, the fetch of the second fails, the third is stored
C15_Witness ==
    /\ Listed_ok /\ store_up
    /\ ret.listed = <<Sample.m3, SyncSample.m5, Sample.m1>>
    /\ ret.val[1].kind = "ok" /\ ret.val[2].kind = "error"
    /\ ret.val[3].kind = "ok"
    /\ \E r \in RowsOf(Sample.m3) :
           store[r][AttributeName.received_date] = PNone


----------------------------------------------------------------------------
(* Claims on the emails table, checked under Spec                          *)

InsertedEmail == op = "insert_email_pg"
\* no two rows of the table carry the same email id
UniqueIds ==
    \A i, j \in 1..Len(store) :
        (i # j /\ store[i][AttributeName.email_id] # PNone) =>
            store[i][AttributeName.email_id] # store[j][AttributeName.email_id]
\* some row of the table carries the email id of record email_info
Stored(email_info) ==
    \E i \in 1..Len(store) : store[i][AttributeName.email_id]
                                 = RowOf(email_info)[AttributeName.email_id]
\* every row of the table is still there, unchanged, after the step
RowsKept ==
    /\ Len(store') >= Len(store)
    /\ \A i \in 1..Len(store) : store'[i] = store[i]
\* a call of insert_email_pg the store accepts: no error is reported, a
\* record with a new id is added as given, one with a stored id changes
\* nothing
Upserted ==
    (op' = "insert_email_pg" /\ store_up) =>
        /\ ret'.exc = "none"
        /\ Len(ret'.val) = 1 /\ ret'.val[1].kind = "ok"
        /\ IF Stored(args'.email_info) THEN store' = store
           ELSE store' = Append(store, RowOf(args'.email_info))

\* C16: the table holds at most one record per email id; no call changes or
\* removes a stored record, so the record of an id is the first one stored
\* for it; a call with a stored id changes nothing and reports no error.
C16_FirstWriteWins == []UniqueIds /\ [][RowsKept /\ Upserted]_vars

\* a second record with the id of a stored one has been given: the stored
\* one is still there, no error is reported
C16_Witness ==
    /\ InsertedEmail /\ store_up
    /\ ret.val[1].kind = "ok"
    /\ \E i \in 1..Len(store) :
           /\ store[i][AttributeName.email_id]
                  = RowOf(args.email_info)[AttributeName.email_id]
           /\ store[i] # RowOf(args.email_info)



\* the stored records that carry the id
Holders(id) == {i \in 1..Len(store) : IdAt(i) = id}
\* the record of id a is the record of id b or an earlier one of the read
NotAfter(a, b) == /\ Holders(a) # {} /\ Holders(b) # {}
                  /\ \A i \in Holders(a), j \in Holders(b) : i <= j
\* the actions the ruleset declares
Declared == rules_file.doc.d["actions"]
\* call c is the remote call of the declared action at its position
OfDeclaredAction(c) ==
    /\ calls[c].pos \in 1..Len(Declared)
    /\ <<calls[c]>> = ActionStep(calls[c].id, Declared[calls[c].pos],
                                 calls[c].pos, {}).calls
\* the lines of the report that name a record
NamesRecord(l) == ret.val[l].kind \in {"summary", "ok", "error"}

\* C17: in every run of apply_email_rules, the remote calls after the
\* session are each the call of a declared action; the calls of one record
\* follow the declared order of the actions; every call of a record is
\* issued before any call of a later record of the read; and the report
\* names the records in that same order, each record's summary line before
\* its outcome lines.
C17_RemoteOrder ==
    AppliedRules =>
        /\ \A c \in 2..Len(calls) : OfDeclaredAction(c)
        /\ \A c, d \in 2..Len(calls) :
               c < d =>
                   /\ NotAfter(calls[c].id, calls[d].id)
                   /\ calls[c].id = calls[d].id => calls[c].pos < calls[d].pos
        /\ \A l, m \in 1..Len(ret.val) :
               (l < m /\ NamesRecord(l) /\ NamesRecord(m)) =>
                   /\ NotAfter(ret.val[l].id, ret.val[m].id)
                   /\ ret.val[m].kind = "summary" =>
                          ret.val[l].id # ret.val[m].id
        /\ \A m \in 1..Len(ret.val) :
               ret.val[m].kind \in {"ok", "error"} =>
                   \E l \in 1..(m - 1) : ret.val[l] = SummaryLine(ret.val[m].id)
        /\ \A c \in 2..Len(calls) :
               ret.exc = "none" =>
                   \E l \in 1..Len(ret.val) :
                       ret.val[l] = SummaryLine(calls[c].id)

\* a run over two matching records with two remote calls each, the second
\* call of the first record failing
C17_Witness ==
    /\ AppliedRules /\ ret.exc = "none"
    /\ Len(store) >= 2 /\ MatchesAt(1) /\ MatchesAt(2)
    /\ Len(calls) >= 5
    /\ calls[2].id = IdAt(1) /\ calls[3].id = IdAt(1)
    /\ calls[4].id = IdAt(2) /\ calls[5].id = IdAt(2)
    /\ 2 \in args.fails[1]
    /\ \E l \in 1..Len(ret.val) : ret.val[l].kind = "error"



\* the ruleset of the call states no match policy
PolicyAbsent == ~Has(args.ruleset, "match_policy")
\* the ruleset states a match policy that is a str other than all
PolicyOther == /\ Has(args.ruleset, "match_policy")
               /\ args.ruleset["match_policy"].t = "str"
               /\ Lower(args.ruleset["match_policy"].s) # PolicyName.all
\* the conjunction and the disjunction of the per-condition results
EveryCondition == \A i \in 1..Len(RulesOf) : CondResult(i).val
SomeCondition == \E i \in 1..Len(RulesOf) : CondResult(i).val

\* C19 restricted to policies that are absent or a str: without a match
\* policy the matcher decides as under all, with a str other than all as
\* under any, and it returns normally.
C19_StrPolicies ==
    (Evaluated /\ AllBoolean) =>
        /\ PolicyAbsent => (ret.exc = "none" /\ ret.val = EveryCondition)
        /\ PolicyOther => (ret.exc = "none" /\ ret.val = SomeCondition)

\* C19 as claimed: ... and no policy value causes an error, whatever the
\* ruleset document holds under match_policy.
C19_PolicyResolution ==
    (Evaluated /\ AllBoolean) =>
        /\ PolicyAbsent => ret.val = EveryCondition
        /\ PolicyOther => ret.val = SomeCondition
        /\ ret.exc = "none"



\* the four text predicates, and the negation of each
TextPredicates == {PredicateName.contains, PredicateName.does_not_contain,
                   PredicateName.equals, PredicateName.does_not_equal}
Negation(p) ==
    CASE p = PredicateName.contains -> PredicateName.does_not_contain
      [] p = PredicateName.does_not_contain -> PredicateName.contains
      [] p = PredicateName.equals -> PredicateName.does_not_equal
      [] OTHER -> PredicateName.equals
\* the condition of the call is a text predicate on some value
TextPredicateChecked == /\ Checked /\ WellFormed
                        /\ PredicateOf \in TextPredicates
\* what the negated predicate returns on the same field value and
\* condition value
Negated ==
    check_condition(args.email_value,
                    [args.condition EXCEPT
                         !["predicate"] = PStr(Negation(PredicateOf))],
                    args.now)
\* condition i of the ruleset evaluated is a text predicate
TextRule(i) == /\ Has(RulesOf[i], "predicate")
               /\ RulesOf[i]["predicate"].t = "str"
               /\ Lower(RulesOf[i]["predicate"].s) \in TextPredicates

\* C20: on a str field value and a str condition value a text predicate
\* and its negation return opposite booleans; on a field value that is no
\* str both return false, and so does every text condition of a ruleset
\* on a field the record holds as null.
C20_NegatedPredicates ==
    /\ TextPredicateChecked =>
           /\ (args.email_value.t = "str" /\ args.condition["value"].t = "str")
                  => /\ ret.exc = "none" /\ Negated.exc = "none"
                     /\ ret.val = ~Negated.val
           /\ args.email_value.t # "str"
                  => /\ ret = Return(FALSE)
                     /\ Negated = Return(FALSE)
    /\ Evaluated =>
           \A i \in 1..Len(ret.evals) :
               (TextRule(i) /\ ret.fields[i].t # "str") => ret.evals[i] = FALSE

\* a field value and a condition value that differ in case only, under
\* does not contain: false, where contains is true
C20_Witness ==
    /\ TextPredicateChecked
    /\ PredicateOf = PredicateName.does_not_contain
    /\ args.email_value = PStr(<<"A">>)
    /\ args.condition["value"] = PStr(<<"a">>)
    /\ ret = Return(FALSE) /\ Negated = Return(TRUE)

\* a record read back with a null message: neither contains nor does not
\* contain is satisfied
C20_NullWitness ==
    /\ Evaluated
    /\ Len(ret.evals) = 2 /\ TextRule(1) /\ TextRule(2)
    /\ Lower(RulesOf[1]["predicate"].s) = PredicateName.contains
    /\ Lower(RulesOf[2]["predicate"].s) = PredicateName.does_not_contain
    /\ ret.fields = <<PNone, PNone>>
    /\ ret.evals = <<FALSE, FALSE>>



\* the labels a sequence of label ids names
LabelsOf(ids) == {ids[k] : k \in 1..Len(ids)}
\* action i is a move whose destination, lower-cased, is d
MovesTo(i, d) == /\ TypeAt(i) = ActionName.move_message
                 /\ DestinationAt(i).t = "str"
                 /\ Lower(DestinationAt(i).s) = d
\* the destinations LABELS_MAP maps, other than the inbox
OtherMapped == {LabelName.forum, LabelName.updates, LabelName.promotions}

\* C21: a move to the inbox, stated or by default, issues one modify call
\* that both removes and adds the inbox label; a move to any other mapped
\* destination issues one modify call whose removed and added labels are
\* disjoint.
C21_MoveToInbox ==
    Dispatched =>
        \A i \in 1..Len(args.actions_list) :
            /\ MovesTo(i, LabelName.inbox) =>
                   /\ Cardinality(CallsOf(i)) = 1
                   /\ \A k \in CallsOf(i) :
                          /\ calls[k].api = "modify"
                          /\ LabelName.INBOX \in LabelsOf(calls[k].remove)
                          /\ LabelName.INBOX \in LabelsOf(calls[k].add)
            /\ (\E d \in OtherMapped : MovesTo(i, d)) =>
                   /\ Cardinality(CallsOf(i)) = 1
                   /\ \A k \in CallsOf(i) :
                          /\ calls[k].api = "modify"
                          /\ LabelsOf(calls[k].remove)
                                 \cap LabelsOf(calls[k].add) = {}

\* a move without a destination followed by a move to forum: the first
\* call removes and adds INBOX, the second removes INBOX and adds the
\* forum category
C21_Witness ==
    /\ Dispatched
    /\ Len(args.actions_list) = 2
    /\ ~Has(args.actions_list[1], "destination") /\ MovesTo(1, LabelName.inbox)
    /\ MovesTo(2, LabelName.forum)
    /\ Len(calls) = 2
    /\ calls[1].remove = <<LabelName.INBOX>> /\ calls[1].add = <<LabelName.INBOX>>
    /\ calls[2].remove = <<LabelName.INBOX>>
    /\ calls[2].add = <<LabelName.CATEGORY_FORUMS>>



----------------------------------------------------------------------------
(* Claims on the paging loop of fetch_emails, checked under SpecPaging     *)

Paged == op = "paged"
\* the response to request r carries a next-page token
TokenAfter(r) == r < Len(args.remote.pages)
\* the identifiers gathered after request r have reached the count
CountReached(r) == Len(UpToPage(r)) >= RequestedCount
\* the whole function and the loop agree on what is returned and asked
PagingAgrees ==
    Paged => /\ ret = [exc |-> fetch_emails(args.remote.pages,
                                            args.count_or_query,
                                            args.remote.fail_at).exc,
                       val |-> fetch_emails(args.remote.pages,
                                            args.count_or_query,
                                            args.remote.fail_at).val]
             /\ calls = fetch_emails(args.remote.pages, args.count_or_query,
                                     args.remote.fail_at).requests

\* no request beyond the listing; every request after the first follows a
\* response with a token and, with a count, a count not yet reached; and on
\* return the last response has no token or, with a count, the count is
\* reached
StopsInTime ==
    /\ Len(calls) <= Len(args.remote.pages)
    /\ \A r \in 2..Len(calls) :
           /\ TokenAfter(r - 1)
           /\ CountMode => ~CountReached(r - 1)
    /\ (Paged /\ ret.exc = "none") =>
           /\ QueryMode => ~TokenAfter(Len(calls))
           /\ CountMode => (~TokenAfter(Len(calls)) \/ CountReached(Len(calls)))

\* C22: on a listing of finitely many pages fetch_emails ends; with a count
\* it asks for no page once the identifiers gathered have reached the count
\* or a response has come without a next-page token, and with a query it
\* stops at the first response without one.
C22_PagingTerminates == []StopsInTime /\ <>Paged

\* a count of 2 against three pages of one identifier each: two requests,
\* the third page is never asked for
C22_Witness ==
    /\ Paged /\ ret.exc = "none"
    /\ CountMode /\ RequestedCount = 2
    /\ Len(args.remote.pages) = 3
    /\ Len(calls) = 2 /\ TokenAfter(2)
    /\ Len(ret.val) = 2

====
